---- MODULE Spec2Model ----
(***************************************************************************)
(* Role Cycler (en1y/DiscordRoleRotator): the rotation engine of           *)
(* bot2.0.py / bot3.0.py (one process-wide data.json blob, a scheduler     *)
(* loop, the /run command) and of bot3.1.py (perform_run on a per-guild    *)
(* Store).                                                                 *)
(*                                                                         *)
(* asyncio runs one task at a time and switches tasks only at an await.    *)
(* A task's code between two awaits is one atomic block; the variable      *)
(* `active` names the task that is inside such a block (it has not yet     *)
(* reached its next await), and no other task steps while it is set.       *)
(***************************************************************************)
EXTENDS Integers, Sequences, FiniteSets, TLC

\* ------------------------------------------------------------------ bounds
NMembers == 2        \* guild members 1..NMembers (Spec)
MaxTime == 3         \* the clock runs from 1 to MaxTime
DayLen == 1          \* clock ticks per day
MaxPool == 3         \* guild members 1..MaxPool (SpecFair)
MaxY == 3            \* /picks-number set takes 1..MaxY
MaxRuns == 4         \* the run counter of the history stops here
NGuilds == 2         \* bot.guilds: the guilds 1..NGuilds

\* bot2.0.py: DEFAULT_PICKS_Y
DEFAULT_PICKS_Y == 1

Members == 1..NMembers
FairMembers == 1..MaxPool
Manuals == {"m1", "m2"}
Sched == "sched"
Procs == Manuals \cup {Sched}
NoProc == "none"
Guilds == 1..NGuilds
NoMsg == [to |-> NoProc, msg |-> "none"]

VARIABLES
    data,          \* _DATA_CACHE: the in-memory blob
    disk,          \* data.json: the last blob written by save_data
    roleB,         \* members that have role B on the platform
    poolA,         \* non-bot members that have role A
    guildMembers,  \* members guild.get_member finds
    now,           \* the clock
    lock,          \* RUN_LOCKS: per guild, the task that holds its lock, or NoProc
    pc,            \* each task's position
    loc,           \* each task's local variables
    active,        \* the task inside an atomic block, or NoProc
    out,           \* the message the last step sent to its caller / channel
    schedPicks,    \* pick_next_batch calls of the scheduler in this firing
    held,          \* per member, the clock ticks spent with role B
    api,           \* the outcomes a grant or revoke call may have
    ver,           \* the program that runs: "2.0" or "3.1"
    cfg,           \* bot3.1: GuildConfig
    st,            \* bot3.1: GuildState
    hist,          \* history of the selections (not program state)
    cal,           \* the schedule calculator: its inputs and what it returned
    acct,          \* the hold accounting of one member: its record and the query
    gid,           \* per task, the guild of its interaction
    home,          \* per member, the guild the member belongs to
    store,         \* a state, the file it is written to, what is read back
    task           \* bot3.1: the scheduled_runner task of the guild

\* the state of the calculations on their own and the guilds, which no task
\* of the rotation changes
others == <<cal, acct, gid, home, store, task>>

vars == <<data, disk, roleB, poolA, guildMembers, now, lock, pc, loc,
          active, out, schedPicks, held, api, others, ver, cfg, st, hist>>

\* ----------------------------------------------------------------- helpers
Max(a, b) == IF a >= b THEN a ELSE b
Min(a, b) == IF a <= b THEN a ELSE b

Range(s) == {s[i] : i \in 1..Len(s)}

\* Python s[:n] and s[n:]
Take(s, n) == SubSeq(s, 1, Min(Max(n, 0), Len(s)))
Drop(s, n) == SubSeq(s, Min(Max(n, 0), Len(s)) + 1, Len(s))

RECURSIVE Filter(_, _)
Filter(s, S) ==
    IF s = <<>> THEN <<>>
    ELSE IF Head(s) \in S THEN <<Head(s)>> \o Filter(Tail(s), S)
         ELSE Filter(Tail(s), S)

\* every order random.shuffle can leave the ids of S in
RECURSIVE Perms(_)
Perms(S) ==
    IF S = {} THEN {<<>>}
    ELSE UNION {{<<x>> \o p : p \in Perms(S \ {x})} : x \in S}

\* Python truthiness of an Optional[int] (<<>> is None)
Truthy(h) == h # <<>> /\ h[1] # 0

\* ------------------------------------------------------------ the data blob
default_data ==
    [queue |-> <<>>, index |-> 0, current_holders |-> <<>>,
     stats |-> <<>>, next_run_ts |-> <<>>, enabled |-> FALSE,
     picks_y |-> DEFAULT_PICKS_Y, sched_time |-> 0]

ensure_user_stat(stats, uid) ==
    IF uid \in DOMAIN stats THEN stats
    ELSE [u \in DOMAIN stats \cup {uid} |->
            IF u = uid THEN [seconds_total |-> 0, hold_started_ts |-> <<>>]
            ELSE stats[u]]

\* guild.get_member: the members of guild g that are still there
get_member(g) == {m \in guildMembers : home[m] = g}

\* the block left out: the interval stays open
FinalizeStatSkipped(stats, uid, t) == stats
\* the "finalize stats" block of remove_role_b_from_current_holders
FinalizeStat(stats, uid, t) ==
    IF uid \in DOMAIN stats /\ Truthy(stats[uid].hold_started_ts)
    THEN [stats EXCEPT ![uid] =
            [seconds_total |-> @.seconds_total + Max(0, t - @.hold_started_ts[1]),
             hold_started_ts |-> <<>>]]
    ELSE stats

\* one iteration of the loop over current_ids, up to the remove_roles call
CloseHolder(stats, uid, t, g) ==
    IF uid \notin get_member(g)
    THEN FinalizeStat(stats, uid, t)
    ELSE FinalizeStat(ensure_user_stat(stats, uid), uid, t)

\* pick_next_batch after a successful add_roles: the hold interval opens
OpenHold(stats, uid, t) ==
    [ensure_user_stat(stats, uid) EXCEPT ![uid].hold_started_ts = <<t>>]

\* stats_cmd: the total of one record, the open interval included
StatsTotal(rec, t) ==
    rec.seconds_total +
    (IF Truthy(rec.hold_started_ts) THEN Max(0, t - rec.hold_started_ts[1]) ELSE 0)

\* no accounting on its own
NoAcct == [t |-> <<>>, stats |-> <<>>, phase |-> 0, total |-> 0]

eligible_members_with_role_a(g) == poolA \cap get_member(g)

\* the remaining portion kept as it is, members without role A included
repair_keeps_leavers(current_queue, current_index, a_ids_now) ==
    Drop(current_queue, current_index)
\* the members with role A that the queue does not hold put at its end
repair_with_joiners(current_queue, current_index, a_ids_now) ==
    Filter(Drop(current_queue, current_index), a_ids_now)
    \o (CHOOSE sq \in Perms(a_ids_now \ Range(current_queue)) : TRUE)
\* the remaining portion taken from the start of the queue, not from index
repair_from_start(current_queue, current_index, a_ids_now) ==
    Filter(current_queue, a_ids_now)
repair_cycle_with_current_a(current_queue, current_index, a_ids_now) ==
    Filter(Drop(current_queue, current_index), a_ids_now)

\* pick_next_batch without "index += y"
SelectBatchStuck(queue, index, y0, a_ids_now, newq, newc) ==
    LET y == IF y0 < 1 THEN 1 ELSE y0
        leftovers == repair_cycle_with_current_a(queue, index, a_ids_now)
        q1 == IF leftovers = <<>> THEN newq ELSE leftovers
    IN  IF Len(q1) >= y
        THEN [selected |-> Take(q1, y), queue |-> q1, index |-> 0,
              fresh |-> leftovers = <<>>, topup |-> FALSE,
              z |-> leftovers, first |-> Take(q1, y), topped |-> <<>>]
        ELSE [selected |-> q1 \o Take(newc, y - Len(q1)), queue |-> Drop(newc, y - Len(q1)),
              index |-> 0, fresh |-> leftovers = <<>>, topup |-> TRUE,
              z |-> leftovers, first |-> q1, topped |-> Take(newc, y - Len(q1))]

\* the selection of pick_next_batch: newq and newc are the two shuffles;
\* z is the carried-over remainder, first what the batch takes from the
\* queue, topped what it takes from the top-up permutation
SelectBatch(queue, index, y0, a_ids_now, newq, newc) ==
    LET y == IF y0 < 1 THEN 1 ELSE y0
        leftovers == repair_cycle_with_current_a(queue, index, a_ids_now)
        q1 == IF leftovers = <<>> THEN newq ELSE leftovers
        remaining == Len(q1)
        needed == y - Len(q1)
    IN  IF remaining >= y
        THEN [selected |-> Take(q1, y), queue |-> q1, index |-> y,
              fresh |-> leftovers = <<>>, topup |-> FALSE,
              z |-> leftovers, first |-> Take(q1, y), topped |-> <<>>]
        ELSE [selected |-> q1 \o Take(newc, needed), queue |-> Drop(newc, needed),
              index |-> 0, fresh |-> leftovers = <<>>, topup |-> TRUE,
              z |-> leftovers, first |-> q1, topped |-> Take(newc, needed)]

\* shuffle_cycle_queue is called only when the repaired queue is empty, and
\* the top-up permutation is drawn only when the queue is shorter than y
NewQueues(queue, index, a_ids_now) ==
    IF repair_cycle_with_current_a(queue, index, a_ids_now) = <<>>
    THEN Perms(a_ids_now) ELSE {<<>>}

NewCycles(queue, index, y0, a_ids_now) ==
    LET leftovers == repair_cycle_with_current_a(queue, index, a_ids_now)
        remaining == IF leftovers = <<>> THEN Cardinality(a_ids_now) ELSE Len(leftovers)
    IN  IF remaining >= Max(1, y0) THEN {<<>>} ELSE Perms(a_ids_now)

\* next_run_from_now for a daily schedule at tick sched_time of the day
next_run_from_now(d, t) ==
    IF ~d.enabled THEN <<>>
    ELSE LET cand == (t \div DayLen) * DayLen + d.sched_time
         IN  IF cand <= t THEN <<cand + DayLen>> ELSE <<cand>>

\* ------------------------------------------------------------ the calendar
\* datetime in the configured zone (a zone without clock changes): a date of
\* the Gregorian calendar and a time of day, one of SlotsPerDay instants
Year0 == 2024        \* the first year the clock may show
NYears == 2          \* the clock shows a date of Year0 .. Year0 + NYears - 1
SlotsPerDay == 2     \* the times of day, 0 .. SlotsPerDay - 1
MaxNDays == 3        \* /schedule set takes n_days in 1..MaxNDays

IsLeap(y) == (y % 4 = 0 /\ y % 100 # 0) \/ y % 400 = 0

DaysInMonth(y, m) ==
    IF m = 2 THEN (IF IsLeap(y) THEN 29 ELSE 28)
    ELSE IF m \in {4, 6, 9, 11} THEN 30 ELSE 31

\* every datetime.now(tz) of the years the clock may show
DateTimes ==
    {dt \in [year : Year0..(Year0 + NYears - 1), month : 1..12, day : 1..31,
             tod : 0..(SlotsPerDay - 1)] :
        dt.day <= DaysInMonth(dt.year, dt.month)}

RECURSIVE DaysBeforeMonth(_, _)
DaysBeforeMonth(y, m) ==
    IF m = 1 THEN 0 ELSE DaysBeforeMonth(y, m - 1) + DaysInMonth(y, m - 1)

\* date.toordinal: day 1 is 0001-01-01, a Monday
Ordinal(dt) ==
    LET y1 == dt.year - 1
    IN  365 * y1 + (y1 \div 4) - (y1 \div 100) + (y1 \div 400)
        + DaysBeforeMonth(dt.year, dt.month) + dt.day

\* datetime.weekday: Monday is 0
Weekday(dt) == (Ordinal(dt) + 6) % 7

\* datetime.timestamp: the instant, counted in times of day
Timestamp(dt) == Ordinal(dt) * SlotsPerDay + dt.tod

\* dt + timedelta(days = k)
RECURSIVE AddDays(_, _)
AddDays(dt, k) ==
    IF k = 0 THEN dt
    ELSE IF dt.day < DaysInMonth(dt.year, dt.month)
    THEN AddDays([dt EXCEPT !.day = @ + 1], k - 1)
    ELSE IF dt.month < 12
    THEN AddDays([dt EXCEPT !.month = @ + 1, !.day = 1], k - 1)
    ELSE AddDays([dt EXCEPT !.year = @ + 1, !.month = 1, !.day = 1], k - 1)

\* what datetime.replace gives for a day the month does not have
ValueError == [year |-> 0, month |-> 0, day |-> 0, tod |-> 0]

\* dt.replace(year = y, month = m, day = d)
Replace(dt, y, m, d) ==
    IF d \in 1..DaysInMonth(y, m)
    THEN [dt EXCEPT !.year = y, !.month = m, !.day = d]
    ELSE ValueError

\* the test "cand <= now" as "cand < now"
NotAfterStrict(cand, nw) == Timestamp(cand) < Timestamp(nw)
\* cand <= now
NotAfter(cand, nw) == Timestamp(cand) <= Timestamp(nw)

\* for d in range(28, 32): try cand.replace(day = min(dom, d)), and continue
\* on ValueError
RECURSIVE FixDay(_, _, _)
FixDay(cand, dom, d) ==
    IF d > 31 THEN cand
    ELSE LET r == Replace(cand, cand.year, cand.month, Min(dom, d))
         IN  FixDay(IF r = ValueError THEN cand ELSE r, dom, d + 1)

\* while cand <= now: cand += timedelta(days = n)
RECURSIVE AddWhileNotAfter(_, _, _)
AddWhileNotAfter(cand, nw, n) ==
    IF NotAfter(cand, nw) THEN AddWhileNotAfter(AddDays(cand, n), nw, n) ELSE cand

\* the weekly rule with "days_ahead == 0" alone sending the run a week on
days_ahead_week_on(weekday, cand, nw) ==
    LET ahead == (weekday - Weekday(cand) + 7) % 7
    IN  IF ahead = 0 THEN 7 ELSE ahead
\* days_ahead = (weekday - cand.weekday()) % 7
\* if days_ahead == 0 and cand <= now: days_ahead = 7
days_ahead(weekday, cand, nw) ==
    LET ahead == (weekday - Weekday(cand) + 7) % 7
    IN  IF ahead = 0 /\ NotAfter(cand, nw) THEN 7 ELSE ahead

\* timedelta(days = max(1, n)) taken as one day whatever n
step_days_one(n) == 1
\* n = max(1, int(s.get("n_days") or 3)); max(1, cfg.schedule.every_days)
step_days(n) == Max(1, n)

\* what a call of the calculator gives: a timestamp, None, or an exception
ReturnsNone == [kind |-> "None", ts |-> 0]
Raises == [kind |-> "ValueError", ts |-> 0]
Returns(dt) == [kind |-> "ts", ts |-> Timestamp(dt)]
NotCalled == [kind |-> "not_called", ts |-> 0]

\* bot2.0: DEFAULT_SCHEDULE (the time "09:00" is time of day 0)
DEFAULT_SCHEDULE ==
    [enabled |-> FALSE, type |-> "every_n_days", n_days |-> 3, weekday |-> 0,
     dom |-> 1, time |-> 0]

\* bot2.0 next_run_from_now on the calendar: s is config["schedule"], nw is
\* datetime.now(tz)
NextRunFromNow(s, nw) ==
    IF ~s.enabled THEN ReturnsNone
    ELSE LET at == [nw EXCEPT !.tod = s.time]
         IN  CASE s.type = "daily" ->
                    Returns(IF NotAfter(at, nw) THEN AddDays(at, 1) ELSE at)
               [] s.type = "weekly" ->
                    Returns(AddDays(at, days_ahead(s.weekday, at, nw)))
               [] s.type = "monthly" ->
                    LET first == Replace(at, nw.year, nw.month, Min(s.dom, 28))
                        cand == FixDay(first, s.dom, 28)
                        y == IF nw.month = 12 THEN nw.year + 1 ELSE nw.year
                        m2 == IF nw.month = 12 THEN 1 ELSE nw.month + 1
                        moved == Replace(cand, y, m2, cand.day)
                    IN  IF ~NotAfter(cand, nw) THEN Returns(cand)
                        ELSE IF moved = ValueError THEN Raises
                        ELSE Returns(FixDay(moved, s.dom, 28))
               [] s.type = "every_n_days" ->
                    Returns(AddWhileNotAfter(at, nw, step_days(s.n_days)))
               [] OTHER -> ReturnsNone

\* bot3.1: ScheduleConfig() (hour 12, minute 0 is time of day 0)
ScheduleConfig ==
    [mode |-> "preset", preset |-> "weekly", every_days |-> 7, hour |-> 0]

\* bot3.1 compute_next_run
compute_next_run(s, nw) ==
    LET target == [nw EXCEPT !.tod = s.hour]
        step == IF s.mode = "preset"
                THEN (CASE s.preset = "daily" -> 1
                        [] s.preset = "weekly" -> 7
                        [] s.preset = "monthly" -> 30
                        [] OTHER -> 1)
                ELSE step_days(s.every_days)
    IN  Returns(IF NotAfter(target, nw) THEN AddDays(target, step) ELSE target)

\* the schedules /schedule set can leave in config["schedule"]
Schedules20 ==
    {[DEFAULT_SCHEDULE EXCEPT !.enabled = TRUE, !.type = "daily", !.time = h] :
        h \in 0..(SlotsPerDay - 1)}
    \cup {[DEFAULT_SCHEDULE EXCEPT !.enabled = TRUE, !.type = "weekly", !.time = h,
                                   !.weekday = w] :
        h \in 0..(SlotsPerDay - 1), w \in 0..6}
    \cup {[DEFAULT_SCHEDULE EXCEPT !.enabled = TRUE, !.type = "monthly", !.time = h,
                                   !.dom = d] :
        h \in 0..(SlotsPerDay - 1), d \in 1..31}
    \cup {[DEFAULT_SCHEDULE EXCEPT !.enabled = TRUE, !.type = "every_n_days",
                                   !.time = h, !.n_days = n] :
        h \in 0..(SlotsPerDay - 1), n \in 1..MaxNDays}

\* the schedules of bot3.1
Schedules31 ==
    {[ScheduleConfig EXCEPT !.preset = k, !.hour = h] :
        k \in {"daily", "weekly", "monthly"}, h \in 0..(SlotsPerDay - 1)}
    \cup {[ScheduleConfig EXCEPT !.mode = "every_days", !.every_days = n, !.hour = h] :
        n \in 1..MaxNDays, h \in 0..(SlotsPerDay - 1)}

\* no call of the calculator on its own
NoCal ==
    [now |-> ValueError, s |-> DEFAULT_SCHEDULE, next_run_ts |-> <<>>,
     res |-> NotCalled, calls |-> 0]

\* no state is being written and read back on its own
NoStore == [phase |-> "off", mem |-> <<>>, file |-> <<>>, orig |-> <<>>]

\* no scheduled_runner task
NoTask == [at |-> "none", wake |-> 0, hour |-> 0, set_at |-> 0, ran |-> 0,
           stopped |-> FALSE]

\* ---------------------------------------------------------------- history
\* What the runs have selected so far.  Recorded only when hist.on; the
\* counts are kept while the pool has not changed since the first run.
Count(sq, m) == Cardinality({i \in 1..Len(sq) : sq[i] = m})
Distinct(sq) == \A i, j \in 1..Len(sq) : sq[i] = sq[j] => i = j
Ceil(a, b) == (a + b - 1) \div b

ZeroCount == [m \in FairMembers |-> 0]
CountAdd(c, sq) == [m \in FairMembers |-> Min(2, c[m] + Count(sq, m))]
SeenAdd(c, sq) == [m \in FairMembers |-> IF m \in Range(sq) THEN Min(2, c[m] + 1) ELSE c[m]]
CycleCovers(c, pool) == \A m \in FairMembers : c[m] = IF m \in pool THEN 1 ELSE 0

HistOff ==
    [on |-> FALSE, runs |-> 0, seen |-> ZeroCount, cyc |-> ZeroCount,
     open |-> FALSE, cycleOk |-> TRUE, snapOn |-> FALSE, snap |-> {},
     since |-> {}]

\* a batch is selected: fresh says that the queue was empty and a permutation
\* was drawn first, topup that a permutation was drawn in the middle;
\* cycleOk records that every cycle closed so far had selected every pool
\* member exactly once
HistSelect(h, fresh, first, topup, topped, pool) ==
    IF ~h.on
    THEN (IF h.snapOn
          THEN [h EXCEPT !.snap = pool,
                         !.since = IF fresh \/ topup THEN pool ELSE @ \cap pool]
          ELSE h)
    ELSE LET c0 == IF fresh THEN ZeroCount ELSE h.cyc
             ok0 == (fresh /\ h.open) => CycleCovers(h.cyc, pool)
             c1 == CountAdd(c0, first)
             ok1 == topup => CycleCovers(c1, pool)
             c2 == IF topup THEN CountAdd(ZeroCount, topped) ELSE c1
         IN  [h EXCEPT !.cyc = c2,
                       !.open = TRUE,
                       !.cycleOk = @ /\ ok0 /\ ok1,
                       !.snap = IF h.snapOn THEN pool ELSE @]

\* a run has ended with these holders
HistRun(h, holders) ==
    IF ~h.on THEN h
    ELSE [h EXCEPT !.runs = Min(MaxRuns, @ + 1), !.seen = SeenAdd(@, holders)]

NoLoc == [ids |-> <<>>, sel |-> <<>>, selAll |-> <<>>, now_ts |-> 0, rot |-> 0,
          roles |-> FALSE]

\* resolve_roles: whether both role A and role B are found by name (the
\* guild's roles at the moment of the call)
resolve_roles == BOOLEAN

\* asyncio.Lock: acquire returns at once only when nobody holds the lock
LockFreeBroken(g) == TRUE
LockFree(g) == lock[g] = NoProc

\* leaving "async with lock" without releasing the lock
ReleaseForgotten(lk, g) == lk
\* "async with lock": entering acquires the lock of the guild, leaving the
\* block (by its end, a return or an exception) releases it
Release(lk, g) == [lk EXCEPT ![g] = NoProc]
Acquire(lk, g, p) == [lk EXCEPT ![g] = p]

\* ------------------------------------------------------------------- Init
InitTasks ==
    /\ roleB = {}
    /\ now = 1
    /\ lock = [g \in Guilds |-> NoProc]
    /\ pc = [p \in Procs |-> IF p = Sched THEN "loop" ELSE "idle"]
    /\ loc = [p \in Procs |-> NoLoc]
    /\ active = NoProc
    /\ out = NoMsg
    /\ schedPicks = 0
    /\ held = [m \in Members |-> 0]
    /\ st = [current_cycle_pool |-> <<>>, stats |-> <<>>]

InitBase ==
    /\ InitTasks
    /\ data = default_data
    /\ disk = default_data
    /\ cfg = [picks_number |-> 2]

\* bot2.0 in a guild of NMembers members, all of them with role A
InitGuild ==
    /\ poolA = Members
    /\ guildMembers = Members
    /\ ver = "2.0"
    /\ hist = HistOff

\* every task and every member is in guild 1
InitHome ==
    /\ gid = [p \in Procs |-> 1]
    /\ home = [m \in Members \cup FairMembers |-> 1]

\* ... and nothing is being written to a file on its own, and no
\* scheduled_runner task exists
InitOneGuild == InitHome /\ store = NoStore /\ task = NoTask

\* no calculation on its own is under way
InitAlone == cal = NoCal /\ acct = NoAcct /\ InitOneGuild

\* a grant or a revoke may fail
Init == InitBase /\ InitGuild /\ InitAlone /\ api = BOOLEAN

\* every grant and every revoke succeeds
InitOk == InitBase /\ InitGuild /\ InitAlone /\ api = {TRUE}

MayStep(p) == active \in {NoProc, p}

Idle(p) == IF p = Sched THEN "loop" ELSE "idle"

\* save_data: the whole blob is written
Saved(d) == d

Msg(p, m) == [to |-> p, msg |-> m]

\* ------------------------------------------------- one rotation, step by step
\* remove_role_b_from_current_holders up to its loop: nothing to do (and no
\* save) when current_holders is empty
EnterRemove(p, d, rot) ==
    /\ pc' = [pc EXCEPT ![p] = IF d.current_holders = <<>> THEN "pick" ELSE "remove"]
    /\ loc' = [loc EXCEPT ![p] = [NoLoc EXCEPT !.ids = d.current_holders,
                                               !.now_ts = now, !.rot = rot,
                                               !.roles = TRUE]]
    /\ active' = p

\* one iteration of the loop: finalize the holder's stats, then remove role B
\* if the member still has it (an await: the task yields)
RemoveStep(p) ==
    /\ pc[p] = "remove" /\ MayStep(p)
    /\ LET uid == Head(loc[p].ids)
           rest == Tail(loc[p].ids)
       IN  /\ data' = [data EXCEPT !.stats = CloseHolder(data.stats, uid, loc[p].now_ts, gid[p])]
           /\ IF uid \in get_member(gid[p]) /\ uid \in roleB
              THEN /\ \E ok \in api : roleB' = IF ok THEN roleB \ {uid} ELSE roleB
                   /\ active' = NoProc
              ELSE /\ roleB' = roleB
                   /\ active' = p
           /\ loc' = [loc EXCEPT ![p].ids = rest]
           /\ pc' = [pc EXCEPT ![p] = IF rest = <<>> THEN "remove_end" ELSE "remove"]
    /\ out' = NoMsg
    /\ UNCHANGED <<disk, poolA, guildMembers, now, lock, schedPicks, held, api, others, ver, cfg, st, hist>>

\* after the loop: current_holders = [] and save_data
RemoveEnd(p) ==
    /\ pc[p] = "remove_end" /\ MayStep(p)
    /\ data' = [data EXCEPT !.current_holders = <<>>]
    /\ disk' = Saved(data')
    /\ pc' = [pc EXCEPT ![p] = "pick"]
    /\ active' = p
    /\ out' = NoMsg
    /\ UNCHANGED <<roleB, poolA, guildMembers, now, lock, loc, schedPicks, held, api, others, ver, cfg, st, hist>>

\* pick_next_batch up to its first add_roles
Pick(p) ==
    /\ pc[p] = "pick" /\ MayStep(p)
    /\ \E newq \in NewQueues(data.queue, data.index, eligible_members_with_role_a(gid[p])),
          newc \in NewCycles(data.queue, data.index, data.picks_y,
                             eligible_members_with_role_a(gid[p])) :
         LET r == SelectBatch(data.queue, data.index, data.picks_y,
                              eligible_members_with_role_a(gid[p]), newq, newc)
             selected_members == Filter(r.selected, eligible_members_with_role_a(gid[p]))
         IN  /\ data' = [data EXCEPT !.queue = r.queue, !.index = r.index]
             /\ loc' = [loc EXCEPT ![p].sel = selected_members,
                                   ![p].selAll = selected_members,
                                   ![p].now_ts = now]
             /\ pc' = [pc EXCEPT ![p] = IF selected_members = <<>> THEN "pick_end" ELSE "grant"]
             /\ active' = IF selected_members = <<>> THEN p ELSE NoProc
             /\ hist' = HistSelect(hist, r.fresh, r.first, r.topup, r.topped,
                                   eligible_members_with_role_a(gid[p]))
    /\ schedPicks' = IF p = Sched THEN schedPicks + 1 ELSE schedPicks
    /\ out' = NoMsg
    /\ UNCHANGED <<disk, roleB, poolA, guildMembers, now, lock, held, api, others, ver, cfg, st>>

\* one add_roles: on success the hold interval is opened, then sleep(0.3)
GrantStep(p) ==
    /\ pc[p] = "grant" /\ MayStep(p)
    /\ LET m == Head(loc[p].sel)
           rest == Tail(loc[p].sel)
       IN  /\ \E ok \in api :
                IF ok
                THEN /\ roleB' = roleB \cup {m}
                     /\ data' = [data EXCEPT !.stats = OpenHold(data.stats, m, loc[p].now_ts)]
                     /\ active' = NoProc
                ELSE /\ roleB' = roleB
                     /\ data' = data
                     /\ active' = IF rest = <<>> THEN p ELSE NoProc
           /\ loc' = [loc EXCEPT ![p].sel = rest]
           /\ pc' = [pc EXCEPT ![p] = IF rest = <<>> THEN "pick_end" ELSE "grant"]
    /\ out' = NoMsg
    /\ UNCHANGED <<disk, poolA, guildMembers, now, lock, schedPicks, held, api, others, ver, cfg, st, hist>>

\* after the grants: current_holders = every selected member, save_data; then
\*   /run: the reply (an await), still inside "async with lock";
\*   scheduler, first rotation: the lock is released and the rotation code
\*     that follows the "async with" block starts at once;
\*   scheduler, second rotation: the announcement (an await when a channel
\*     exists), then save_and_reschedule.
PickEnd(p) ==
    /\ pc[p] = "pick_end" /\ MayStep(p)
    /\ data' = [data EXCEPT !.current_holders = loc[p].selAll]
    /\ disk' = Saved(data')
    /\ IF p \in Manuals
       THEN /\ pc' = [pc EXCEPT ![p] = "reply"]
            /\ active' = NoProc
            /\ out' = NoMsg
            /\ UNCHANGED <<loc, lock>>
       ELSE IF loc[p].rot = 1
       THEN /\ lock' = Release(lock, gid[p])
            /\ EnterRemove(p, data', 2)
            /\ out' = NoMsg
       ELSE /\ \E channel \in BOOLEAN :
                 /\ out' = IF ~channel THEN NoMsg
                           ELSE Msg(p, IF loc[p].selAll = <<>> THEN "run_none" ELSE "run_done")
                 /\ active' = IF channel THEN NoProc ELSE p
            /\ pc' = [pc EXCEPT ![p] = "resched"]
            /\ loc' = [loc EXCEPT ![p] = NoLoc]
            /\ UNCHANGED lock
    /\ hist' = HistRun(hist, loc[p].selAll)
    /\ UNCHANGED <<roleB, poolA, guildMembers, now, schedPicks, held, api, others, ver, cfg, st>>

\* ------------------------------------------------------------------ cmd_run
\* /run by a permitted user, up to the ACK (send_message, an await)
CmdRun(p) ==
    /\ pc[p] = "idle" /\ active = NoProc
    /\ pc' = [pc EXCEPT ![p] = "wait_lock"]
    /\ out' = Msg(p, "run_start")
    /\ UNCHANGED <<data, disk, roleB, poolA, guildMembers, now, lock, loc,
                   active, schedPicks, held, api, others, ver, cfg, st, hist>>

\* async with lock: run_rotation; resolve_roles has no await in it
RunRotation(p) ==
    /\ pc[p] = "wait_lock" /\ active = NoProc
    /\ LockFree(gid[p])
    /\ lock' = Acquire(lock, gid[p], p)
    /\ \E roles \in resolve_roles :
         IF roles
         THEN EnterRemove(p, data, 1)
         ELSE /\ pc' = [pc EXCEPT ![p] = "reply_err"]
              /\ active' = NoProc
              /\ loc' = loc
    /\ out' = NoMsg
    /\ UNCHANGED <<data, disk, roleB, poolA, guildMembers, now, schedPicks, held, api, others, ver, cfg, st, hist>>

\* the reply is delivered, cmd_run returns and "async with" releases the lock
Reply(p) ==
    /\ pc[p] \in {"reply", "reply_err", "reply_exc"} /\ active = NoProc
    /\ out' = Msg(p, IF pc[p] = "reply_err" THEN "missing_roles"
                     ELSE IF pc[p] = "reply_exc" THEN "error"
                     ELSE IF loc[p].selAll = <<>> THEN "run_none" ELSE "run_done")
    /\ lock' = Release(lock, gid[p])
    /\ pc' = [pc EXCEPT ![p] = "idle"]
    /\ loc' = [loc EXCEPT ![p] = NoLoc]
    /\ UNCHANGED <<data, disk, roleB, poolA, guildMembers, now, active,
                   schedPicks, held, api, others, ver, cfg, st, hist>>

\* ----------------------------------------------------------- scheduler_loop
save_and_reschedule(d, t) == [d EXCEPT !.next_run_ts = next_run_from_now(d, t)]

\* the marker is due only at the instant itself
\* the test left out: every iteration fires
IsDueAlways(t, next_ts) == TRUE
IsDueExact(t, next_ts) == t = next_ts
\* "if now >= next_ts"
IsDue(t, next_ts) == t >= next_ts

\* schedule disabled: sleep(10); marker in the future: sleep
SchedSleep ==
    /\ pc[Sched] = "loop" /\ active = NoProc
    /\ \/ ~data.enabled
       \/ data.enabled /\ data.next_run_ts # <<>> /\ ~IsDue(now, data.next_run_ts[1])
    /\ out' = NoMsg
    /\ UNCHANGED <<data, disk, roleB, poolA, guildMembers, now, lock, pc, loc,
                   active, schedPicks, held, api, others, ver, cfg, st, hist>>

\* enabled without a marker: save_and_reschedule, sleep(5)
SchedNoMarker ==
    /\ pc[Sched] = "loop" /\ active = NoProc
    /\ data.enabled /\ data.next_run_ts = <<>>
    /\ data' = save_and_reschedule(data, now)
    /\ disk' = Saved(data')
    /\ out' = NoMsg
    /\ UNCHANGED <<roleB, poolA, guildMembers, now, lock, pc, loc, active,
                   schedPicks, held, api, others, ver, cfg, st, hist>>

\* under the lock: resolve_roles, and the rotation when both roles resolve;
\* with a role missing the lock is released at once, missing_roles goes to
\* the announce channel (when there is one) and the loop continues
SchedLocked ==
    \E roles \in resolve_roles :
      IF roles
      THEN /\ lock' = Acquire(lock, gid[Sched], Sched)
           /\ EnterRemove(Sched, data, 1)
           /\ out' = NoMsg
      ELSE /\ lock' = lock
           /\ \E channel \in BOOLEAN :
                /\ out' = IF channel THEN Msg(Sched, "missing_roles") ELSE NoMsg
                /\ active' = IF channel THEN NoProc ELSE Sched
           /\ pc' = [pc EXCEPT ![Sched] = "resched"]
           /\ loc' = loc

\* now >= next_ts: the firing starts; a held lock makes the task wait
SchedDue ==
    /\ pc[Sched] = "loop" /\ active = NoProc
    /\ data.enabled /\ data.next_run_ts # <<>> /\ IsDue(now, data.next_run_ts[1])
    /\ schedPicks' = 0
    /\ IF LockFree(gid[Sched])
       THEN SchedLocked
       ELSE /\ pc' = [pc EXCEPT ![Sched] = "s_wait"]
            /\ out' = NoMsg
            /\ UNCHANGED <<lock, loc, active>>
    /\ UNCHANGED <<data, disk, roleB, poolA, guildMembers, now, held, api, others, ver, cfg, st, hist>>

SchedAcquire ==
    /\ pc[Sched] = "s_wait" /\ active = NoProc
    /\ LockFree(gid[Sched])
    /\ SchedLocked
    /\ UNCHANGED <<data, disk, roleB, poolA, guildMembers, now, schedPicks, held, api, others, ver, cfg, st, hist>>

\* "compute next run" after the for loop over the guilds
SchedReschedule ==
    /\ pc[Sched] = "resched" /\ MayStep(Sched)
    /\ data' = save_and_reschedule(data, now)
    /\ disk' = Saved(data')
    /\ pc' = [pc EXCEPT ![Sched] = "loop"]
    /\ active' = NoProc
    /\ out' = NoMsg
    /\ UNCHANGED <<roleB, poolA, guildMembers, now, lock, loc, schedPicks, held, api, others, ver, cfg, st, hist>>

\* ------------------------------------------------------ schedule set / stop
ScheduleSet ==
    /\ active = NoProc
    /\ \E t \in 0..(DayLen - 1) :
         data' = save_and_reschedule([data EXCEPT !.enabled = TRUE, !.sched_time = t], now)
    /\ disk' = Saved(data')
    /\ out' = NoMsg
    /\ UNCHANGED <<roleB, poolA, guildMembers, now, lock, pc, loc, active,
                   schedPicks, held, api, others, ver, cfg, st, hist>>

ScheduleStop ==
    /\ active = NoProc
    /\ data' = [data EXCEPT !.enabled = FALSE, !.next_run_ts = <<>>]
    /\ disk' = Saved(data')
    /\ out' = NoMsg
    /\ UNCHANGED <<roleB, poolA, guildMembers, now, lock, pc, loc, active,
                   schedPicks, held, api, others, ver, cfg, st, hist>>

\* -------------------------------------------------------------- environment
\* A clock tick is long (DayLen of them make a day) and a rotation is short:
\* time passes between rotations, not within one.
InRotation(p) == pc[p] \in {"remove", "remove_end", "pick", "grant", "pick_end"}

\* no run is in progress
Quiescent == \A p \in Procs : ~InRotation(p)

Tick ==
    /\ active = NoProc
    /\ \A p \in Procs : ~InRotation(p)
    /\ now < MaxTime
    /\ now' = now + 1
    /\ held' = IF api = {TRUE}
               THEN [m \in Members |-> IF m \in roleB THEN held[m] + 1 ELSE held[m]]
               ELSE held
    /\ out' = NoMsg
    /\ UNCHANGED <<data, disk, roleB, poolA, guildMembers, lock, pc, loc,
                   active, schedPicks, api, others, ver, cfg, st, hist>>

\* the process stops (anywhere) and starts again: get_data reads data.json,
\* RUN_LOCKS is empty, on_ready starts scheduler_loop
Restart ==
    /\ data' = disk
    /\ lock' = [g \in Guilds |-> NoProc]
    /\ pc' = [p \in Procs |-> Idle(p)]
    /\ loc' = [p \in Procs |-> NoLoc]
    /\ active' = NoProc
    /\ out' = NoMsg
    /\ schedPicks' = 0
    /\ UNCHANGED <<disk, roleB, poolA, guildMembers, now, held, api, others, ver, cfg, st, hist>>

\* one /run at a time beside the scheduler
Tasks == {"m1", Sched}

Next ==
    \/ CmdRun("m1")
    \/ RunRotation("m1")
    \/ Reply("m1")
    \/ \E p \in Tasks : RemoveStep(p)
    \/ \E p \in Tasks : RemoveEnd(p)
    \/ \E p \in Tasks : Pick(p)
    \/ \E p \in Tasks : GrantStep(p)
    \/ \E p \in Tasks : PickEnd(p)
    \/ SchedSleep
    \/ SchedDue
    \/ SchedAcquire
    \/ SchedReschedule
    \/ ScheduleSet
    \/ Tick
    \/ Restart

Spec == Init /\ [][Next]_vars

\* two /run invocations, the schedule left disabled
NextManual ==
    \/ \E p \in Manuals : CmdRun(p)
    \/ \E p \in Manuals : RunRotation(p)
    \/ \E p \in Manuals : Reply(p)
    \/ \E p \in Manuals : RemoveStep(p)
    \/ \E p \in Manuals : RemoveEnd(p)
    \/ \E p \in Manuals : Pick(p)
    \/ \E p \in Manuals : GrantStep(p)
    \/ \E p \in Manuals : PickEnd(p)
    \/ Tick
    \/ Restart

SpecManual == Init /\ [][NextManual]_vars

\* the rotations when no platform call fails and the process restarts only
\* between runs
NextOk ==
    \/ CmdRun("m1")
    \/ RunRotation("m1")
    \/ Reply("m1")
    \/ \E p \in Tasks : RemoveStep(p)
    \/ \E p \in Tasks : RemoveEnd(p)
    \/ \E p \in Tasks : Pick(p)
    \/ \E p \in Tasks : GrantStep(p)
    \/ \E p \in Tasks : PickEnd(p)
    \/ SchedSleep
    \/ SchedDue
    \/ SchedAcquire
    \/ SchedReschedule
    \/ ScheduleSet
    \/ ScheduleStop
    \/ Tick
    \/ Quiescent /\ Restart

SpecOk == InitOk /\ [][NextOk]_vars

\* -------------------------------------------------------------- picks_set
\* /picks-number set that also starts a new cycle
picks_set_restarts(num) ==
    /\ active = NoProc
    /\ data' = [data EXCEPT !.picks_y = num, !.queue = <<>>, !.index = 0]
    /\ disk' = Saved(data')
    /\ out' = Msg("admin", "picks_set")
    /\ UNCHANGED <<roleB, poolA, guildMembers, now, lock, pc, loc, active,
                   schedPicks, held, api, others, ver, cfg, st, hist>>

\* bot2.0 /picks-number set
picks_set(num) ==
    /\ active = NoProc
    /\ data' = [data EXCEPT !.picks_y = num]
    /\ disk' = Saved(data')
    /\ out' = Msg("admin", "picks_set")
    /\ UNCHANGED <<roleB, poolA, guildMembers, now, lock, pc, loc, active,
                   schedPicks, held, api, others, ver, cfg, st, hist>>

\* ----------------------------------------------------------------- bot3.1
UserStats == [total_seconds_with_b |-> 0, last_assigned_at |-> <<>>]

StatsGet(stats, uid) == IF uid \in DOMAIN stats THEN stats[uid] ELSE UserStats

StatsPut(stats, uid, us) ==
    [u \in DOMAIN stats \cup {uid} |-> IF u = uid THEN us ELSE stats[u]]

\* perform_run, the loop over prev_b_holders: the stats of every holder
RECURSIVE CloseStats31(_, _, _)
CloseStats31(stats, holders, now_ts) ==
    IF holders = {} THEN stats
    ELSE LET m == CHOOSE x \in holders : TRUE
             us == StatsGet(stats, m)
             us2 == IF us.last_assigned_at # <<>>
                    THEN [total_seconds_with_b |->
                              us.total_seconds_with_b + (now_ts - us.last_assigned_at[1]),
                          last_assigned_at |-> <<>>]
                    ELSE us
         IN  CloseStats31(StatsPut(stats, m, us2), holders \ {m}, now_ts)

\* perform_run, the loop over picks: the stats of every member granted
RECURSIVE OpenStats31(_, _, _)
OpenStats31(stats, granted, now_ts) ==
    IF granted = {} THEN stats
    ELSE LET m == CHOOSE x \in granted : TRUE
         IN  OpenStats31(StatsPut(stats, m, [StatsGet(stats, m) EXCEPT
                                                !.last_assigned_at = <<now_ts>>]),
                         granted \ {m}, now_ts)

\* perform_run, "Selection logic": perm1 and perm2 are the two shuffles
Select31(pool0, members_with_a, y0, perm1, perm2) ==
    LET y == Max(1, y0)
        pool1 == Filter(pool0, members_with_a)
        pool2 == IF pool1 = <<>> THEN perm1 ELSE pool1
        take == Min(y, Len(pool2))
        picks1 == Take(pool2, take)
        pool3 == Drop(pool2, take)
        need == y - Len(picks1)
        new_cycle == Filter(perm2, members_with_a \ Range(picks1))
    IN  IF need <= 0
        THEN [picks |-> picks1, pool |-> pool3, fresh |-> pool1 = <<>>,
              topup |-> FALSE, z |-> pool1, first |-> picks1, topped |-> <<>>]
        ELSE IF Len(new_cycle) >= need
        THEN [picks |-> picks1 \o Take(new_cycle, need), pool |-> Drop(new_cycle, need),
              fresh |-> pool1 = <<>>, topup |-> TRUE, z |-> pool1,
              first |-> picks1, topped |-> Take(new_cycle, need)]
        ELSE [picks |-> picks1 \o new_cycle, pool |-> <<>>,
              fresh |-> pool1 = <<>>, topup |-> TRUE, z |-> pool1,
              first |-> picks1, topped |-> new_cycle]

\* the pool is shuffled only when the filtered pool is empty, and new_cycle
\* only when need > 0
Shuffles1(pool0, members_with_a) ==
    IF Filter(pool0, members_with_a) = <<>> THEN Perms(members_with_a) ELSE {<<>>}

Shuffles2(pool0, members_with_a, y0) ==
    LET pool1 == Filter(pool0, members_with_a)
        n == IF pool1 = <<>> THEN Cardinality(members_with_a) ELSE Len(pool1)
    IN  IF n >= Max(1, y0) THEN {<<>>} ELSE Perms(members_with_a)

\* the calls of a set of platform calls that succeed
Outcomes(S) == IF api = {TRUE} THEN {S} ELSE SUBSET S

\* Store.save: the config and the state of the guild
Saved31(c, s) == [config |-> c, state |-> s]

\* perform_run up to its announcement (the caller is /run or
\* scheduled_runner); with a role missing it logs a warning and returns;
\* without a channel the announcement and the advisory go to the log
perform_run(caller) ==
    /\ pc[caller] = "idle" /\ active = NoProc
    /\ \E roles \in resolve_roles :
         IF ~roles
         THEN /\ out' = Msg("log", "roles_not_configured")
              /\ UNCHANGED <<roleB, st, hist, pc>>
         ELSE \E perm1 \in Shuffles1(st.current_cycle_pool,
                                      eligible_members_with_role_a(gid[caller])),
                 perm2 \in Shuffles2(st.current_cycle_pool,
                                     eligible_members_with_role_a(gid[caller]),
                                     cfg.picks_number),
                 channel \in BOOLEAN :
              \E revoked \in Outcomes(roleB \cap guildMembers) :
                LET members_with_a == eligible_members_with_role_a(gid[caller])
                    prev_b_holders == roleB \cap guildMembers
                    stats1 == CloseStats31(st.stats, prev_b_holders, now)
                    r == Select31(st.current_cycle_pool, members_with_a,
                                  cfg.picks_number, perm1, perm2)
                    y == Max(1, cfg.picks_number)
                IN  \E granted \in Outcomes(Range(r.picks) \cap guildMembers) :
                      /\ roleB' = (roleB \ revoked) \cup granted
                      /\ st' = [current_cycle_pool |-> r.pool,
                                stats |-> OpenStats31(stats1, granted, now)]
                      /\ out' = IF Cardinality(members_with_a) < y
                                THEN Msg(IF channel THEN caller ELSE "log", "run_insufficient")
                                ELSE Msg(IF channel THEN caller ELSE "log",
                                         IF channel THEN "run_summary" ELSE "no_channel")
                      /\ hist' = HistRun(HistSelect(hist, r.fresh, r.first, r.topup,
                                                    r.topped, members_with_a),
                                         Filter(r.picks, granted))
                      /\ pc' = [pc EXCEPT ![caller] = "save"]
    /\ UNCHANGED <<data, disk, poolA, guildMembers, now, lock, loc, active,
                   schedPicks, held, api, others, ver, cfg>>

\* the end of perform_run: await store.save()
perform_run_save(caller) ==
    /\ pc[caller] = "save" /\ active = NoProc
    /\ disk' = Saved31(cfg, st)
    /\ pc' = [pc EXCEPT ![caller] = "idle"]
    /\ out' = NoMsg
    /\ UNCHANGED <<data, roleB, poolA, guildMembers, now, lock, loc, active,
                   schedPicks, held, api, others, ver, cfg, st, hist>>

\* bot3.1 /picks-number set
picks_set31(num) ==
    /\ active = NoProc
    /\ cfg' = [cfg EXCEPT !.picks_number = num]
    /\ disk' = Saved31(cfg', st)
    /\ out' = Msg("admin", "picks_set")
    /\ UNCHANGED <<data, roleB, poolA, guildMembers, now, lock, pc, loc, active,
                   schedPicks, held, api, others, ver, st, hist>>

\* --------------------------------------------------------------- SpecFair
\* one program, bot2.0 or bot3.1, runs one rotation after the other in a
\* guild of MaxPool members, some of them with role A, after /picks-number
\* set; every grant and every revoke succeeds
InitFair ==
    /\ InitTasks
    /\ \E num \in 1..MaxY :
         /\ data = [default_data EXCEPT !.picks_y = num]
         /\ cfg = [picks_number |-> num]
    /\ disk = data
    /\ poolA \in SUBSET FairMembers
    /\ guildMembers = FairMembers
    /\ ver \in {"2.0", "3.1"}
    /\ hist = [HistOff EXCEPT !.on = TRUE]
    /\ api = {TRUE}
    /\ InitAlone

NextFair ==
    \/ ver = "2.0" /\ CmdRun("m1")
    \/ ver = "2.0" /\ RunRotation("m1")
    \/ ver = "2.0" /\ RemoveStep("m1")
    \/ ver = "2.0" /\ RemoveEnd("m1")
    \/ ver = "2.0" /\ Pick("m1")
    \/ ver = "2.0" /\ GrantStep("m1")
    \/ ver = "2.0" /\ PickEnd("m1")
    \/ ver = "2.0" /\ Reply("m1")
    \/ ver = "3.1" /\ perform_run("m1")
    \/ ver = "3.1" /\ perform_run_save("m1")

SpecFair == InitFair /\ [][NextFair]_vars

\* --------------------------------------------------------------- SpecPool
\* bot2.0 runs one rotation after the other while members get and lose role
\* A between the runs and /picks-number set changes the pick count; every
\* grant and every revoke succeeds.  hist.snap is the snapshot of the pool
\* the last selection took, hist.since the members that have been in every
\* snapshot since the last permutation was drawn
InitPool ==
    /\ InitTasks
    /\ \E num \in 1..MaxY :
         /\ data = [default_data EXCEPT !.picks_y = num]
         /\ cfg = [picks_number |-> num]
    /\ disk = data
    /\ poolA \in SUBSET FairMembers
    /\ guildMembers = FairMembers
    /\ ver = "2.0"
    /\ hist = [HistOff EXCEPT !.snapOn = TRUE]
    /\ api = {TRUE}
    /\ InitAlone

\* role A is given to or taken from members (outside the program)
PoolChange ==
    /\ pc["m1"] = "idle" /\ active = NoProc
    /\ \E S \in SUBSET FairMembers : S # poolA /\ poolA' = S
    /\ out' = NoMsg
    /\ UNCHANGED <<data, disk, roleB, guildMembers, now, lock, pc, loc, active,
                   schedPicks, held, api, others, ver, cfg, st, hist>>

\* cmd_status: the holders still in the guild and upcoming_ids
cmd_status(d) ==
    [current |-> Filter(d.current_holders, get_member(1)),
     upcoming |-> Drop(d.queue, d.index)]

NextPool ==
    \/ CmdRun("m1")
    \/ RunRotation("m1")
    \/ RemoveStep("m1")
    \/ RemoveEnd("m1")
    \/ Pick("m1")
    \/ GrantStep("m1")
    \/ PickEnd("m1")
    \/ Reply("m1")
    \/ PoolChange
    \/ pc["m1"] = "idle" /\ \E num \in 1..MaxY : num # data.picks_y /\ picks_set(num)

SpecPool == InitPool /\ [][NextPool]_vars

\* --------------------------------------------------------------- SpecClock
\* one program, bot2.0 or bot3.1, runs one rotation after the other and is
\* restarted between them, while the wall clock that datetime.now() reads is
\* set forward or back; every grant and every revoke succeeds
MaxSeconds == 3      \* no run starts once a total is beyond -MaxSeconds..MaxSeconds

InitClock ==
    /\ InitTasks
    /\ data = default_data
    /\ cfg = [picks_number |-> 1]
    /\ ver \in {"2.0", "3.1"}
    /\ disk = IF ver = "3.1" THEN Saved31(cfg, st) ELSE data
    /\ poolA = Members
    /\ guildMembers = Members
    /\ hist = HistOff
    /\ api = {TRUE}
    /\ InitAlone

SecondsBounded ==
    /\ \A m \in DOMAIN data.stats : data.stats[m].seconds_total <= MaxSeconds
    /\ \A m \in DOMAIN st.stats :
         st.stats[m].total_seconds_with_b \in (0 - MaxSeconds)..MaxSeconds

\* the clock of the host is set: datetime.now() reads another time
ClockSet ==
    /\ active = NoProc /\ Quiescent
    /\ \E t \in 1..MaxTime : t # now /\ now' = t
    /\ out' = NoMsg
    /\ UNCHANGED <<data, disk, roleB, poolA, guildMembers, lock, pc, loc, active,
                   schedPicks, held, api, others, ver, cfg, st, hist>>

\* bot3.1 starts again: Store.load reads the file into config and state
Restart31 ==
    /\ cfg' = disk.config
    /\ st' = disk.state
    /\ pc' = [p \in Procs |-> Idle(p)]
    /\ out' = NoMsg
    /\ UNCHANGED <<data, disk, roleB, poolA, guildMembers, now, lock, loc, active,
                   schedPicks, held, api, others, ver, hist>>

NextClock ==
    \/ ver = "2.0" /\ SecondsBounded /\ CmdRun("m1")
    \/ ver = "2.0" /\ RunRotation("m1")
    \/ ver = "2.0" /\ RemoveStep("m1")
    \/ ver = "2.0" /\ RemoveEnd("m1")
    \/ ver = "2.0" /\ Pick("m1")
    \/ ver = "2.0" /\ GrantStep("m1")
    \/ ver = "2.0" /\ PickEnd("m1")
    \/ ver = "2.0" /\ Reply("m1")
    \/ ver = "2.0" /\ pc["m1"] = "idle" /\ Restart
    \/ ver = "3.1" /\ SecondsBounded /\ perform_run("m1")
    \/ ver = "3.1" /\ perform_run_save("m1")
    \/ ver = "3.1" /\ pc["m1"] = "idle" /\ Restart31
    \/ ClockSet

SpecClock == InitClock /\ [][NextClock]_vars

\* ---------------------------------------------------------------- SpecCal
\* the schedule calculator on its own: the clock shows any datetime of the
\* calendar, and /schedule set (bot2.0) or scheduled_runner (bot3.1) asks
\* for the next run of any schedule
InitCal ==
    /\ InitBase
    /\ poolA = Members
    /\ guildMembers = Members
    /\ hist = HistOff
    /\ api = {TRUE}
    /\ ver \in {"2.0", "3.1"}
    /\ acct = NoAcct
    /\ InitOneGuild
    /\ cal \in {[NoCal EXCEPT !.now = dt,
                              !.s = IF ver = "2.0" THEN DEFAULT_SCHEDULE
                                    ELSE ScheduleConfig] : dt \in DateTimes}

\* bot2.0 and bot3.0 /schedule set: the schedule is stored and enabled, then
\* save_and_reschedule; an exception of next_run_from_now leaves the command
\* before next_run_ts is assigned and before save_data
ScheduleSetCal ==
    /\ ver \in {"2.0", "3.0"} /\ cal.res = NotCalled
    /\ \E sch \in Schedules20 :
         LET r == NextRunFromNow(sch, cal.now)
         IN  /\ cal' = [cal EXCEPT !.s = sch, !.res = r,
                                   !.next_run_ts = IF r.kind = "ts" THEN <<r.ts>>
                                                   ELSE IF r.kind = "None" THEN <<>>
                                                   ELSE @]
             /\ out' = IF r = Raises THEN NoMsg ELSE Msg("admin", "schedule_set")
    /\ UNCHANGED <<data, disk, roleB, poolA, guildMembers, now, lock, pc, loc, active,
                   schedPicks, held, api, acct, gid, home, store, task,
                   ver, cfg, st, hist>>

\* bot2.0 /schedule stop
ScheduleStopCal ==
    /\ ver = "2.0" /\ cal.s.enabled
    /\ cal' = [cal EXCEPT !.s.enabled = FALSE, !.next_run_ts = <<>>,
                          !.res = [kind |-> "stopped", ts |-> 0]]
    /\ out' = Msg("admin", "schedule_stopped")
    /\ UNCHANGED <<data, disk, roleB, poolA, guildMembers, now, lock, pc, loc, active,
                   schedPicks, held, api, acct, gid, home, store, task,
                   ver, cfg, st, hist>>

\* bot3.1 scheduled_runner up to its sleep: next_time of the guild's schedule
ScheduledRunnerCal ==
    /\ ver = "3.1" /\ cal.res = NotCalled
    /\ \E sch \in Schedules31 :
         cal' = [cal EXCEPT !.s = sch, !.res = compute_next_run(sch, cal.now)]
    /\ out' = NoMsg
    /\ UNCHANGED <<data, disk, roleB, poolA, guildMembers, now, lock, pc, loc, active,
                   schedPicks, held, api, acct, gid, home, store, task,
                   ver, cfg, st, hist>>

NextCal ==
    \/ ScheduleSetCal
    \/ ScheduleStopCal
    \/ ScheduledRunnerCal

SpecCal == InitCal /\ [][NextCal]_vars

\* --------------------------------------------------------------- SpecKind
\* the calculator and its callers on a schedule whose kind none of them
\* knows: data.json is read as it is (get_data, Store._decode), so the
\* kind is whatever the file holds
MaxCalls == 2        \* the scheduler's recomputations that are counted

\* kinds other than the ones the calculators test for
UnknownKinds == {"hourly", "yearly"}

InitKind ==
    /\ InitBase
    /\ poolA = Members
    /\ guildMembers = Members
    /\ hist = HistOff
    /\ api = {TRUE}
    /\ ver \in {"2.0", "3.1"}
    /\ acct = NoAcct
    /\ InitOneGuild
    /\ \E dt \in DateTimes, k \in UnknownKinds, h \in 0..(SlotsPerDay - 1) :
         cal = [NoCal EXCEPT
                  !.now = dt,
                  !.s = IF ver = "2.0"
                        THEN [DEFAULT_SCHEDULE EXCEPT !.enabled = TRUE, !.type = k,
                                                      !.time = h]
                        ELSE [ScheduleConfig EXCEPT !.preset = k, !.hour = h]]

\* bot2.0 scheduler_loop, one iteration with the schedule enabled and no
\* marker: save_and_reschedule, sleep 5, continue; nothing is sent, and an
\* exception of the calculator is logged by the outer handler
SchedNoMarkerCal ==
    /\ ver = "2.0" /\ cal.s.enabled /\ cal.next_run_ts = <<>>
    /\ cal.calls < MaxCalls
    /\ LET r == NextRunFromNow(cal.s, cal.now)
       IN  /\ cal' = [cal EXCEPT !.res = r, !.calls = @ + 1,
                                 !.next_run_ts = IF r.kind = "ts" THEN <<r.ts>> ELSE @]
           /\ out' = IF r = Raises THEN Msg(Sched, "log") ELSE NoMsg
    /\ UNCHANGED <<data, disk, roleB, poolA, guildMembers, now, lock, pc, loc, active,
                   schedPicks, held, api, acct, gid, home, store, task,
                   ver, cfg, st, hist>>

\* bot3.1 scheduled_runner up to its sleep, with the schedule the guild has
ScheduledRunnerKind ==
    /\ ver = "3.1" /\ cal.res = NotCalled
    /\ cal' = [cal EXCEPT !.res = compute_next_run(cal.s, cal.now), !.calls = @ + 1]
    /\ out' = NoMsg
    /\ UNCHANGED <<data, disk, roleB, poolA, guildMembers, now, lock, pc, loc, active,
                   schedPicks, held, api, acct, gid, home, store, task,
                   ver, cfg, st, hist>>

NextKind ==
    \/ SchedNoMarkerCal
    \/ ScheduledRunnerKind
    \/ ScheduleStopCal

SpecKind == InitKind /\ [][NextKind]_vars

\* -------------------------------------------------------------- SpecMarker
\* bot2.0 or bot3.0 with the marker on the calendar: the schedule is set,
\* time passes (up to the marker, beyond it, or a little while the process is
\* down), the process is started again by on_ready, and scheduler_loop
\* handles the marker that is due.  cal.calls counts the scheduled rotations
\* since the clock last moved.
MaxDown == 1         \* times of day that pass short of the marker
MaxLate == 1         \* times of day the scheduler wakes after the marker

\* datetime.fromtimestamp for an instant ts on or after the day of ref
DateTimeAt(ts, ref) ==
    AddDays([ref EXCEPT !.tod = ts % SlotsPerDay], (ts \div SlotsPerDay) - Ordinal(ref))

InitMarker ==
    /\ InitBase
    /\ poolA = Members
    /\ guildMembers = Members
    /\ hist = HistOff
    /\ api = {TRUE}
    /\ ver \in {"2.0", "3.0"}
    /\ acct = NoAcct
    /\ InitOneGuild
    /\ cal \in {[NoCal EXCEPT !.now = dt] : dt \in {d \in DateTimes : d.year = Year0}}

\* time passes after /schedule set
ClockCal ==
    /\ out = Msg("admin", "schedule_set")
    /\ LET t0 == Timestamp(cal.now)
           mk == cal.next_run_ts[1]
       IN  \E t \in ((t0 + 1)..(t0 + MaxDown)) \cup (mk..(mk + MaxLate)) :
             /\ t > t0
             /\ cal' = [cal EXCEPT !.now = DateTimeAt(t, cal.now), !.calls = 0]
    /\ out' = NoMsg
    /\ UNCHANGED <<data, disk, roleB, poolA, guildMembers, now, lock, pc, loc, active,
                   schedPicks, held, api, acct, gid, home, store, task,
                   ver, cfg, st, hist>>

\* scheduler_loop, one iteration with the marker due: the rotation, then
\* save_and_reschedule; an exception of next_run_from_now is logged by the
\* outer handler, which sleeps 10 s, and the marker stays
SchedDueCal ==
    /\ cal.s.enabled /\ cal.next_run_ts # <<>>
    /\ Timestamp(cal.now) >= cal.next_run_ts[1]
    /\ cal.calls < MaxCalls
    /\ LET r == NextRunFromNow(cal.s, cal.now)
       IN  /\ cal' = [cal EXCEPT !.res = r, !.calls = @ + 1,
                                 !.next_run_ts = IF r.kind = "ts" THEN <<r.ts>> ELSE @]
           /\ out' = IF r = Raises THEN Msg(Sched, "log") ELSE Msg(Sched, "run_done")
    /\ UNCHANGED <<data, disk, roleB, poolA, guildMembers, now, lock, pc, loc, active,
                   schedPicks, held, api, acct, gid, home, store, task,
                   ver, cfg, st, hist>>

\* the process starts again with the schedule and the marker of data.json:
\* bot2.0 on_ready starts scheduler_loop; bot3.0 on_ready calls
\* save_and_reschedule first, and starts no scheduler_loop when that raises
on_ready ==
    /\ cal.s.enabled /\ out # Msg(Sched, "ready")
    /\ LET r == NextRunFromNow(cal.s, cal.now)
       IN  cal' = IF ver = "3.0"
                  THEN [cal EXCEPT !.res = r, !.calls = 0,
                                   !.next_run_ts = IF r.kind = "ts" THEN <<r.ts>> ELSE @]
                  ELSE [cal EXCEPT !.calls = 0]
    /\ out' = Msg(Sched, "ready")
    /\ UNCHANGED <<data, disk, roleB, poolA, guildMembers, now, lock, pc, loc, active,
                   schedPicks, held, api, acct, gid, home, store, task,
                   ver, cfg, st, hist>>

NextMarker ==
    \/ ScheduleSetCal
    \/ ClockCal
    \/ SchedDueCal
    \/ on_ready

SpecMarker == InitMarker /\ [][NextMarker]_vars

\* --------------------------------------------------------------- SpecAcct
\* the hold accounting of member 1 on its own: the interval is opened at
\* t[1], closed at t[2], opened again at t[3], and /stats asks at t[4]
MaxStamp == 4        \* the timestamps are 0..MaxStamp

InitAcct ==
    /\ InitBase
    /\ InitGuild
    /\ api = {TRUE}
    /\ cal = NoCal
    /\ InitOneGuild
    /\ acct \in {[NoAcct EXCEPT !.t = <<t0, t1, t2, t3>>] :
                    t0 \in 0..MaxStamp, t1 \in 0..MaxStamp,
                    t2 \in 0..MaxStamp, t3 \in 0..MaxStamp}
    /\ acct.t[1] <= acct.t[2] /\ acct.t[2] <= acct.t[3] /\ acct.t[3] <= acct.t[4]

\* pick_next_batch grants role B to the member at its now_ts
AcctOpen ==
    /\ acct.phase \in {0, 2}
    /\ acct' = [acct EXCEPT !.stats = OpenHold(@, 1, acct.t[acct.phase + 1]),
                            !.phase = @ + 1]
    /\ out' = NoMsg
    /\ UNCHANGED <<data, disk, roleB, poolA, guildMembers, now, lock, pc, loc, active,
                   schedPicks, held, api, cal, gid, home, store, task,
                   ver, cfg, st, hist>>

\* remove_role_b_from_current_holders finalizes the member's stats
AcctClose ==
    /\ acct.phase = 1
    /\ acct' = [acct EXCEPT !.stats = CloseHolder(@, 1, acct.t[2], 1), !.phase = 2]
    /\ out' = NoMsg
    /\ UNCHANGED <<data, disk, roleB, poolA, guildMembers, now, lock, pc, loc, active,
                   schedPicks, held, api, cal, gid, home, store, task,
                   ver, cfg, st, hist>>

\* /stats
AcctQuery ==
    /\ acct.phase = 3
    /\ acct' = [acct EXCEPT !.total = StatsTotal(acct.stats[1], acct.t[4]), !.phase = 4]
    /\ out' = Msg("m1", "stats_title")
    /\ UNCHANGED <<data, disk, roleB, poolA, guildMembers, now, lock, pc, loc, active,
                   schedPicks, held, api, cal, gid, home, store, task,
                   ver, cfg, st, hist>>

NextAcct ==
    \/ AcctOpen
    \/ AcctClose
    \/ AcctQuery

SpecAcct == InitAcct /\ [][NextAcct]_vars

\* -------------------------------------------------------------- SpecStore
\* the state is written to the file and read back by a fresh process.  A
\* JSON document is a tree of tagged values: null, a number, a boolean, an
\* array, or an object whose keys are strings; a string is the sequence of
\* its characters
Digits == <<"0", "1", "2", "3", "4", "5", "6", "7", "8", "9">>

\* str(uid), str(gid): the decimal digits of a non-negative integer
RECURSIVE str(_)
str(n) ==
    IF n < 10 THEN <<Digits[n + 1]>>
    ELSE str(n \div 10) \o <<Digits[(n % 10) + 1]>>

DigitValue(c) == CHOOSE i \in 0..9 : Digits[i + 1] = c

\* int(uid_str), int(gid_str)
RECURSIVE int(_)
int(s) ==
    IF Len(s) = 1 THEN DigitValue(s[1])
    ELSE 10 * int(Take(s, Len(s) - 1)) + DigitValue(s[Len(s)])

JNull == [j |-> "null"]
JNum(n) == [j |-> "num", v |-> n]
JObj(f) == [j |-> "obj", v |-> f]

\* the instant 0 written as null, as a truth test of the value would
JOptFalsy(o) == IF o = <<>> \/ o[1] = 0 THEN JNull ELSE JNum(o[1])
\* None or an integer, to JSON and back
JOpt(o) == IF o = <<>> THEN JNull ELSE JNum(o[1])
FromJOpt(x) == IF x.j = "null" THEN <<>> ELSE <<x.v>>
\* a list of integers, to JSON and back
JInts(seq) == [j |-> "arr", v |-> [i \in DOMAIN seq |-> JNum(seq[i])]]
FromJInts(x) == [i \in DOMAIN x.v |-> x.v[i].v]
\* the keys of a dict with integer keys, as strings
StrKeys(f) == {str(u) : u \in DOMAIN f}
KeyOf(f, key) == CHOOSE u \in DOMAIN f : str(u) = key

\* bot2.0 save_data: json.dumps(get_data()); the keys of "stats" are
\* str(uid)
json_dumps(d) ==
    JObj([k \in {"config", "current_holders", "stats", "current_cycle", "next_run_ts"} |->
        CASE k = "config" ->
                JObj([c \in {"picks_y", "schedule"} |->
                    IF c = "picks_y" THEN JNum(d.picks_y)
                    ELSE JObj([f \in {"enabled", "time"} |->
                            IF f = "enabled" THEN [j |-> "bool", v |-> d.enabled]
                            ELSE JNum(d.sched_time)])])
          [] k = "current_holders" -> JInts(d.current_holders)
          [] k = "stats" ->
                JObj([key \in StrKeys(d.stats) |->
                    LET rec == d.stats[KeyOf(d.stats, key)]
                    IN  JObj([f \in {"seconds_total", "hold_started_ts"} |->
                            IF f = "seconds_total" THEN JNum(rec.seconds_total)
                            ELSE JOpt(rec.hold_started_ts)])])
          [] k = "current_cycle" ->
                JObj([f \in {"queue", "index"} |->
                    IF f = "queue" THEN JInts(d.queue) ELSE JNum(d.index)])
          [] k = "next_run_ts" -> JOpt(d.next_run_ts)])

\* bot2.0 get_data in a fresh process: json.loads of the file; the record
\* of a member is found under str(uid)
json_loads(doc) ==
    LET o == doc.v
        stats == o["stats"].v
        uids == {int(key) : key \in DOMAIN stats}
    IN  [queue |-> FromJInts(o["current_cycle"].v["queue"]),
         index |-> o["current_cycle"].v["index"].v,
         current_holders |-> FromJInts(o["current_holders"]),
         stats |-> [u \in uids |->
                      [seconds_total |-> stats[str(u)].v["seconds_total"].v,
                       hold_started_ts |->
                           FromJOpt(stats[str(u)].v["hold_started_ts"])]],
         next_run_ts |-> FromJOpt(o["next_run_ts"]),
         enabled |-> o["config"].v["schedule"].v["enabled"].v,
         picks_y |-> o["config"].v["picks_y"].v,
         sched_time |-> o["config"].v["schedule"].v["time"].v]

\* bot3.1 Store._encode: guilds is store.data["guilds"], gid -> payload
\* (last_assigned_at, a float in the program, is a whole number here)
_encode(guilds) ==
    JObj([g \in StrKeys(guilds) |->
        LET payload == guilds[KeyOf(guilds, g)]
        IN  JObj([k \in {"config", "state"} |->
                IF k = "config"
                THEN JObj([c \in {"picks_number"} |-> JNum(payload.config.picks_number)])
                ELSE JObj([f \in {"current_cycle_pool", "stats"} |->
                        IF f = "current_cycle_pool"
                        THEN JInts(payload.state.current_cycle_pool)
                        ELSE JObj([key \in StrKeys(payload.state.stats) |->
                                LET us == payload.state.stats[
                                              KeyOf(payload.state.stats, key)]
                                IN  JObj([a \in {"total_seconds_with_b",
                                                 "last_assigned_at"} |->
                                        IF a = "total_seconds_with_b"
                                        THEN JNum(us.total_seconds_with_b)
                                        ELSE JOpt(us.last_assigned_at)])])])])])

\* bot3.1 Store._decode
_decode(raw) ==
    [gid_ \in {int(g) : g \in DOMAIN raw.v} |->
        LET payload == raw.v[str(gid_)].v
            st_raw == payload["state"].v
            stats_raw == st_raw["stats"].v
        IN  Saved31([picks_number |-> payload["config"].v["picks_number"].v],
                    [current_cycle_pool |-> FromJInts(st_raw["current_cycle_pool"]),
                     stats |-> [uid \in {int(k) : k \in DOMAIN stats_raw} |->
                                  [total_seconds_with_b |->
                                       stats_raw[str(uid)].v["total_seconds_with_b"].v,
                                   last_assigned_at |->
                                       FromJOpt(stats_raw[str(uid)].v
                                                    ["last_assigned_at"])]]])]

\* the ids of the members and of the guild: one of one digit, one of two
StoreIds == {2, 10}

\* the lists of distinct ids
IdLists == {<<>>, <<2>>, <<10>>, <<2, 10>>, <<10, 2>>}

\* the records a member can have: seconds_total and hold_started_ts, 0
\* included
StatsOf(recs) ==
    UNION {[S -> recs] : S \in SUBSET StoreIds}

\* the states a run can leave in memory
States20 ==
    {[default_data EXCEPT !.queue = q, !.index = i, !.current_holders = h,
                          !.stats = s, !.next_run_ts = n] :
        q \in IdLists, i \in 0..MaxStamp \div 2, h \in {<<>>, <<2>>, <<10, 2>>},
        s \in StatsOf([seconds_total : {0, MaxStamp},
                       hold_started_ts : {<<>>, <<0>>, <<MaxStamp>>}]),
        n \in {<<>>, <<MaxStamp>>}}

States31 ==
    {[g \in {10} |-> Saved31([picks_number |-> y],
                             [current_cycle_pool |-> q, stats |-> s])] :
        y \in 1..MaxY, q \in IdLists,
        s \in StatsOf([total_seconds_with_b : {0, MaxStamp},
                       last_assigned_at : {<<>>, <<0>>, <<MaxStamp>>}])}

InitStore ==
    /\ InitBase
    /\ poolA = Members
    /\ guildMembers = Members
    /\ hist = HistOff
    /\ api = {TRUE}
    /\ ver \in {"2.0", "3.1"}
    /\ cal = NoCal /\ acct = NoAcct /\ InitHome /\ task = NoTask
    /\ \E m \in IF ver = "2.0" THEN States20 ELSE States31 :
         store = [phase |-> "run", mem |-> m, file |-> <<>>, orig |-> m]

\* save_data (bot2.0), Store.save (bot3.1): the state in memory is written
StoreSave ==
    /\ store.phase = "run"
    /\ store' = [store EXCEPT !.phase = "saved",
                              !.file = IF ver = "2.0" THEN json_dumps(store.mem)
                                       ELSE _encode(store.mem)]
    /\ UNCHANGED <<data, disk, roleB, poolA, guildMembers, now, lock, pc, loc, active,
                   out, schedPicks, held, api, cal, acct, gid, home, task,
                   ver, cfg, st, hist>>

\* the process ends and a fresh one reads the file: get_data with
\* _DATA_CACHE None (bot2.0), Store.load (bot3.1)
StoreLoad ==
    /\ store.phase = "saved"
    /\ store' = [store EXCEPT !.phase = "loaded",
                              !.mem = IF ver = "2.0" THEN json_loads(store.file)
                                      ELSE _decode(store.file)]
    /\ UNCHANGED <<data, disk, roleB, poolA, guildMembers, now, lock, pc, loc, active,
                   out, schedPicks, held, api, cal, acct, gid, home, task,
                   ver, cfg, st, hist>>

NextStore ==
    \/ StoreSave
    \/ StoreLoad

SpecStore == InitStore /\ [][NextStore]_vars

\* ------------------------------------------------------------- SpecRunner
\* bot3.1 in one guild: on_ready has created the scheduled_runner task; the
\* schedule is the daily preset at some hour, /schedule preset changes the
\* hour and /schedule stop cancels the task.  `now` counts the slots since
\* the first day of the calendar
ClockAt(t) ==
    AddDays([year |-> Year0, month |-> 1, day |-> 1, tod |-> t % SlotsPerDay],
            t \div SlotsPerDay)

\* cfg.schedule of the guild
RunnerSchedule(h) == [ScheduleConfig EXCEPT !.preset = "daily", !.hour = h]

InitRunner ==
    /\ InitBase
    /\ poolA = Members
    /\ guildMembers = Members
    /\ hist = HistOff
    /\ api = {TRUE}
    /\ ver = "3.1"
    /\ cal = NoCal /\ acct = NoAcct /\ InitHome /\ store = NoStore
    /\ \E h \in 0..(SlotsPerDay - 1) :
         task = [NoTask EXCEPT !.at = "compute", !.hour = h]

\* scheduled_runner: now = tz_now(cfg); next_time = compute_next_run(cfg,
\* now); delay = next_time - now; await asyncio.sleep(delay)
RunnerCompute ==
    /\ task.at = "compute"
    /\ task' = [task EXCEPT
                  !.at = "sleep",
                  !.wake = compute_next_run(RunnerSchedule(task.hour), ClockAt(now)).ts,
                  !.set_at = now]
    /\ out' = NoMsg
    /\ UNCHANGED <<data, disk, roleB, poolA, guildMembers, now, lock, pc, loc, active,
                   schedPicks, held, api, cal, acct, gid, home, store,
                   ver, cfg, st, hist>>

\* the sleep ends after the delay, whatever the schedule has become, and
\* perform_run starts
RunnerWake ==
    /\ task.at = "sleep"
    /\ Timestamp(ClockAt(now)) >= task.wake
    /\ task.ran < MaxRuns
    /\ task' = [task EXCEPT !.at = "revoke"]
    /\ out' = NoMsg
    /\ UNCHANGED <<data, disk, roleB, poolA, guildMembers, now, lock, pc, loc, active,
                   schedPicks, held, api, cal, acct, gid, home, store,
                   ver, cfg, st, hist>>

\* perform_run, the loop over prev_b_holders: the stats are closed and role
\* B is removed
RunnerRevoke ==
    /\ task.at = "revoke"
    /\ LET prev_b_holders == roleB \cap guildMembers
       IN  /\ \E revoked \in Outcomes(prev_b_holders) : roleB' = roleB \ revoked
           /\ st' = [st EXCEPT !.stats = CloseStats31(st.stats, prev_b_holders, now)]
    /\ task' = [task EXCEPT !.at = "grant"]
    /\ out' = NoMsg
    /\ UNCHANGED <<data, disk, poolA, guildMembers, now, lock, pc, loc, active,
                   schedPicks, held, api, cal, acct, gid, home, store,
                   ver, cfg, hist>>

\* perform_run, the selection and the loop over picks
RunnerGrant ==
    /\ task.at = "grant"
    /\ LET members_with_a == eligible_members_with_role_a(1)
       IN  \E perm1 \in Shuffles1(st.current_cycle_pool, members_with_a),
              perm2 \in Shuffles2(st.current_cycle_pool, members_with_a,
                                  cfg.picks_number) :
             LET r == Select31(st.current_cycle_pool, members_with_a,
                               cfg.picks_number, perm1, perm2)
             IN  \E granted \in Outcomes(Range(r.picks) \cap guildMembers) :
                   /\ roleB' = roleB \cup granted
                   /\ st' = [current_cycle_pool |-> r.pool,
                             stats |-> OpenStats31(st.stats, granted, now)]
    /\ task' = [task EXCEPT !.at = "save"]
    /\ out' = Msg(Sched, "run_summary")
    /\ UNCHANGED <<data, disk, poolA, guildMembers, now, lock, pc, loc, active,
                   schedPicks, held, api, cal, acct, gid, home, store,
                   ver, cfg, hist>>

\* perform_run, await store.save(), and back to the head of the loop
RunnerSave ==
    /\ task.at = "save"
    /\ disk' = Saved31(cfg, st)
    /\ task' = [task EXCEPT !.at = "compute", !.ran = @ + 1]
    /\ out' = NoMsg
    /\ UNCHANGED <<data, roleB, poolA, guildMembers, now, lock, pc, loc, active,
                   schedPicks, held, api, cal, acct, gid, home, store,
                   ver, cfg, st, hist>>

\* /schedule preset with another hour: the schedule is stored and saved;
\* the task is not touched
sched_preset ==
    /\ \E h \in 0..(SlotsPerDay - 1) :
         /\ h # task.hour
         /\ task' = [task EXCEPT !.hour = h, !.set_at = now]
    /\ disk' = Saved31(cfg, st)
    /\ out' = Msg("admin", "schedule_set")
    /\ UNCHANGED <<data, roleB, poolA, guildMembers, now, lock, pc, loc, active,
                   schedPicks, held, api, cal, acct, gid, home, store,
                   ver, cfg, st, hist>>

\* /schedule stop: task.cancel() raises CancelledError in the task at the
\* await it is suspended in (the sleep, or a call inside perform_run), which
\* no "except Exception" catches
sched_stop ==
    /\ task.at # "none"
    /\ task' = [task EXCEPT !.at = "none", !.stopped = TRUE]
    /\ out' = Msg("admin", "schedule_stopped")
    /\ UNCHANGED <<data, disk, roleB, poolA, guildMembers, now, lock, pc, loc, active,
                   schedPicks, held, api, cal, acct, gid, home, store,
                   ver, cfg, st, hist>>

NextRunner ==
    \/ RunnerCompute
    \/ RunnerWake
    \/ RunnerRevoke
    \/ RunnerGrant
    \/ RunnerSave
    \/ sched_preset
    \/ sched_stop
    \/ Tick

SpecRunner == InitRunner /\ [][NextRunner]_vars

\* -------------------------------------------------------------- SpecGuilds
\* the bot is in two guilds: member 1 belongs to guild 1 and member 2 to
\* guild 2, both have role A of their guild; /run is used in guild 1 (m1) and
\* in guild 2 (m2); every grant and every revoke succeeds
InitGuilds ==
    /\ InitBase
    /\ InitGuild
    /\ api = {TRUE}
    /\ cal = NoCal
    /\ acct = NoAcct
    /\ gid = [p \in Procs |-> IF p = "m2" THEN 2 ELSE 1]
    /\ home = [m \in Members \cup FairMembers |-> IF m = 2 THEN 2 ELSE 1]
    /\ store = NoStore
    /\ task = NoTask

SpecGuilds == InitGuilds /\ [][NextManual]_vars

\* --------------------------------------------------------------- SpecLive
\* save_data raises (the file cannot be written) at the end of
\* remove_role_b_from_current_holders or of pick_next_batch, after the
\* assignment of current_holders.  In cmd_run the handler "except Exception"
\* notifies the caller; in scheduler_loop the exception leaves "async with"
\* and the handler sends the error to the announce channel, then the loop
\* goes on to save_and_reschedule
RunRaises(p) ==
    /\ pc[p] \in {"remove_end", "pick_end"} /\ MayStep(p)
    /\ data' = [data EXCEPT !.current_holders =
                   IF pc[p] = "remove_end" THEN <<>> ELSE loc[p].selAll]
    /\ IF p \in Manuals
       THEN /\ pc' = [pc EXCEPT ![p] = "reply_exc"]
            /\ active' = NoProc
            /\ out' = NoMsg
            /\ UNCHANGED <<loc, lock>>
       ELSE /\ lock' = IF loc[p].rot = 1 THEN Release(lock, gid[p]) ELSE lock
            /\ \E channel \in BOOLEAN :
                 /\ out' = IF channel THEN Msg(p, "error") ELSE NoMsg
                 /\ active' = IF channel THEN NoProc ELSE p
            /\ pc' = [pc EXCEPT ![p] = "resched"]
            /\ loc' = [loc EXCEPT ![p] = NoLoc]
    /\ UNCHANGED <<disk, roleB, poolA, guildMembers, now, schedPicks, held, api, others, ver, cfg, st, hist>>

\* the schedule has been enabled by /schedule set at the first instant; one
\* member has role A
InitLive ==
    /\ InitTasks
    /\ data = save_and_reschedule([default_data EXCEPT !.enabled = TRUE], 1)
    /\ disk = data
    /\ cfg = [picks_number |-> 2]
    /\ poolA = {1}
    /\ guildMembers = Members
    /\ ver = "2.0"
    /\ hist = HistOff
    /\ InitAlone
    /\ api = {TRUE}

\* the steps of the scheduler task
SchedulerStep ==
    \/ SchedSleep
    \/ SchedDue
    \/ SchedAcquire
    \/ SchedReschedule
    \/ RemoveStep(Sched)
    \/ RemoveEnd(Sched)
    \/ Pick(Sched)
    \/ GrantStep(Sched)
    \/ PickEnd(Sched)

\* the steps of a /run once it has been acknowledged
ManualStep ==
    \/ RunRotation("m1")
    \/ RemoveStep("m1")
    \/ RemoveEnd("m1")
    \/ Pick("m1")
    \/ GrantStep("m1")
    \/ PickEnd("m1")
    \/ Reply("m1")

NextLive ==
    \/ CmdRun("m1")
    \/ ManualStep
    \/ SchedulerStep
    \/ \E p \in Tasks : RunRaises(p)
    \/ Tick

\* the event loop runs every task that is ready, and asyncio.Lock wakes its
\* waiters in turn: a task whose next step is possible again and again takes
\* it.  Nobody has to use /run, nothing has to raise, and the clock may stop
\* at MaxTime.
SpecLive ==
    /\ InitLive
    /\ [][NextLive]_vars
    /\ SF_vars(SchedulerStep)
    /\ SF_vars(ManualStep)

\* -------------------------------------------------------------- properties
\* the part of cmd_run between acquiring and releasing the run lock
InLocked(p) == InRotation(p) \/ pc[p] \in {"reply", "reply_err", "reply_exc"}

\* C1: two manual runs never interleave: while one /run is between acquiring
\* and releasing the run lock, the other executes no step of the
\* remove + pick sequence; it waits for the lock.
C1_ManualRunsExclusive ==
    /\ ~(InLocked("m1") /\ InLocked("m2"))
    /\ \A p \in Manuals : InLocked(p) => lock[gid[p]] = p

\* a /run waits for the lock while the other /run is granting role B
C1_Witness ==
    /\ pc["m1"] = "grant" /\ lock[1] = "m1"
    /\ pc["m2"] = "wait_lock"
    /\ roleB # {}

\* C2: every remove / pick step of the scheduler happens while the scheduler
\* holds the run lock, and no manual run is inside its locked section while
\* the scheduler is inside a rotation.
C2_ScheduledUnderLock ==
    InRotation(Sched) => (lock[gid[Sched]] = Sched /\ ~InLocked("m1"))

\* C3: a firing of the scheduler draws one batch: pick_next_batch runs at
\* most once between the marker being found due and the marker being
\* recomputed.
C3_OneRotationPerFiring == schedPicks <= 1

\* the pool and the pick count of the program that runs
Pool == eligible_members_with_role_a(1)
Want == Max(1, IF ver = "2.0" THEN data.picks_y ELSE cfg.picks_number)

\* the carried-over remainder a selection starts from
Remainder ==
    IF ver = "2.0" THEN repair_cycle_with_current_a(data.queue, data.index, Pool)
    ELSE Filter(st.current_cycle_pool, Pool)

\* the step of bot2.0 that selects a batch, and the batch it selects
IsSelection20 == ver = "2.0" /\ pc["m1"] = "pick" /\ pc'["m1"] \in {"grant", "pick_end"}
Batch20 == loc'["m1"].selAll

\* the step of bot3.1 that selects a batch; every holder is revoked and the
\* batch is granted, so the holders after the step are the batch
IsSelection31 == ver = "3.1" /\ pc["m1"] = "idle" /\ pc'["m1"] = "save"

\* C4: from an empty queue, with a stable pool of P members and y <= P, no
\* member is in current_holders for a second time in a run that precedes the
\* run of the last member's first appearance, and after ceil(P / y) runs
\* every pool member has been in current_holders.
C4_FirstCycleFair ==
    (hist.on /\ Want <= Cardinality(Pool)) =>
        /\ (\E m \in Pool : hist.seen[m] = 0) => (\A m \in Pool : hist.seen[m] <= 1)
        /\ hist.runs >= Ceil(Cardinality(Pool), Want) => (\A m \in Pool : hist.seen[m] >= 1)

\* the first cycle of a pool of three with y = 2 ends in its second run, in
\* which a member appears for the second time
C4_Witness ==
    /\ hist.on /\ Cardinality(Pool) = 3 /\ Want = 2
    /\ hist.runs = 2
    /\ \E m \in Pool : hist.seen[m] = 2
    /\ \A m \in Pool : hist.seen[m] >= 1

\* C5: a top-up batch (remainder z shorter than want, pool of at least want
\* members) has exactly want pairwise distinct ids: z, then want - |z| ids
\* of the fresh permutation, none of them in z.
C5_TopUpStep ==
    (Len(Remainder) < Want /\ Cardinality(Pool) >= Want) =>
        /\ IsSelection20 =>
             /\ Len(Batch20) = Want
             /\ Distinct(Batch20)
             /\ Take(Batch20, Len(Remainder)) = Remainder
             /\ Range(Drop(Batch20, Len(Remainder))) \cap Range(Remainder) = {}
        /\ IsSelection31 =>
             /\ Cardinality(roleB') = Want
             /\ Range(Remainder) \subseteq roleB'

C5_TopUpBatch == [][C5_TopUpStep]_vars

\* C6: with fewer pool members than want the batch and current_holders have
\* at most |pool| entries, none repeated, and the report of the run carries
\* the under-supply advisory.
C6_UnderSupplyStep ==
    Cardinality(Pool) < Want =>
        /\ IsSelection20 => (Len(Batch20) <= Cardinality(Pool) /\ Distinct(Batch20))
        /\ (ver = "2.0" /\ pc["m1"] = "pick_end" /\ pc'["m1"] = "reply") =>
             /\ Len(data'.current_holders) <= Cardinality(Pool)
             /\ Distinct(data'.current_holders)
        /\ (ver = "2.0" /\ pc["m1"] = "reply" /\ pc'["m1"] = "idle") =>
             out'.msg = "run_insufficient"
        /\ IsSelection31 =>
             /\ Cardinality(roleB') <= Cardinality(Pool)
             /\ out' # NoMsg => out'.msg = "run_insufficient"

C6_UnderSupply == [][C6_UnderSupplyStep]_vars

\* C7: with a stable pool and y <= P every cycle, the one a top-up begins
\* included, selects every pool member exactly once before the next
\* permutation is drawn.
C7_CycleCoverage ==
    (hist.on /\ Want <= Cardinality(Pool)) =>
        /\ hist.cycleOk
        /\ \A m \in FairMembers : hist.cyc[m] <= 1

\* C8: when no run is in progress, a member's stats record has a non-null
\* hold_started_ts exactly when the member's id is in current_holders.
C8_HoldersMatchOpenHolds ==
    Quiescent =>
        \A uid \in Members :
            (uid \in DOMAIN data.stats /\ data.stats[uid].hold_started_ts # <<>>)
                <=> uid \in Range(data.current_holders)

\* the total reported for a member: seconds_total plus the open interval
ReportedTotal(m) ==
    IF m \notin DOMAIN data.stats THEN 0
    ELSE data.stats[m].seconds_total +
         (IF Truthy(data.stats[m].hold_started_ts)
          THEN now - data.stats[m].hold_started_ts[1] ELSE 0)

\* C9: when every grant and revoke succeeds, after any sequence of runs and
\* restarts the total reported for a member is the time the member has held
\* role B.
C9_TotalsAreHeldTime ==
    Quiescent => \A m \in Members : ReportedTotal(m) = held[m]

\* what a run that aborts must leave alone
RotationState == <<data.queue, data.index, data.current_holders, data.stats, roleB>>
RotationState31 == <<st.current_cycle_pool, st.stats, roleB>>

\* the step in which a run finds role A or role B missing
ManualAborts == ver = "2.0" /\ pc["m1"] = "wait_lock" /\ pc'["m1"] = "reply_err"
ScheduledAborts == pc[Sched] \in {"loop", "s_wait"} /\ pc'[Sched] = "resched"
Aborts31 == ver = "3.1" /\ pc["m1"] = "idle" /\ pc'["m1"] = "idle"

\* C10: a run that cannot resolve role A or role B changes nothing (queue,
\* cursor, current_holders, stats, role B) and reports a configuration
\* error to its caller.
C10_AbortStep ==
    /\ ManualAborts => RotationState' = RotationState
    /\ (ver = "2.0" /\ pc["m1"] = "reply_err" /\ pc'["m1"] = "idle" /\ out' # NoMsg) =>
           out' = Msg("m1", "missing_roles")
    /\ ScheduledAborts =>
           /\ RotationState' = RotationState
           /\ out' = Msg(Sched, "missing_roles")
    /\ Aborts31 =>
           /\ RotationState31' = RotationState31
           /\ out'.to = "m1"

C10_AbortReportsError == [][C10_AbortStep]_vars

\* C11: next_run_ts is null exactly when the schedule is disabled, in the
\* blob of the running program and after /schedule set and /schedule stop on
\* any date.
C11_MarkerIffEnabled ==
    /\ data.next_run_ts = <<>> <=> ~data.enabled
    /\ ver = "2.0" => (cal.next_run_ts = <<>> <=> ~cal.s.enabled)

\* C12: whatever the enabled schedule (daily, weekly, monthly, every n days)
\* and whatever the current datetime, an instant the calculator returns is
\* strictly after that datetime.
C12_NextRunAfterNow ==
    cal.res.kind = "ts" => cal.res.ts > Timestamp(cal.now)

\* a weekly schedule asked at its own weekday and time of day: the next run
\* is a week later
C12_Witness ==
    /\ ver = "2.0" /\ cal.s.enabled /\ cal.s.type = "weekly"
    /\ cal.s.weekday = Weekday(cal.now) /\ cal.s.time = cal.now.tod
    /\ cal.res.kind = "ts"
    /\ cal.res.ts = Timestamp(cal.now) + 7 * SlotsPerDay

\* C13: next_run_from_now returns for every schedule /schedule set can store
\* and every date; it never raises.
C13_NeverRaises == cal.res # Raises

\* the monthly target: day_of_month of the current month when that is still
\* ahead, otherwise of the following month, clamped to the month's last day
ExpectedMonthly(dom, h, nw) ==
    LET cur == [nw EXCEPT !.day = Min(dom, DaysInMonth(nw.year, nw.month)), !.tod = h]
        y == IF nw.month = 12 THEN nw.year + 1 ELSE nw.year
        m2 == IF nw.month = 12 THEN 1 ELSE nw.month + 1
        following == [year |-> y, month |-> m2,
                      day |-> Min(dom, DaysInMonth(y, m2)), tod |-> h]
    IN  IF Timestamp(cur) > Timestamp(nw) THEN cur ELSE following

\* C14: for a monthly schedule the calculator returns day_of_month of the
\* current month if that instant is still ahead, otherwise day_of_month of
\* the following month, in both cases clamped to the last day of the month.
C14_MonthlyTarget ==
    (ver = "2.0" /\ cal.s.enabled /\ cal.s.type = "monthly") =>
        cal.res = Returns(ExpectedMonthly(cal.s.dom, cal.s.time, cal.now))

\* C20: an interval opened at t0 and closed at t1 (t1 >= t0 >= 0) leaves
\* seconds_total = t1 - t0 and no open interval; opened again at t2 and asked
\* for at t3 (t3 >= t2 >= t1) the total is (t1 - t0) + (t3 - t2).
C20_DurationRoundTrip ==
    /\ acct.phase = 2 =>
         /\ acct.stats[1].seconds_total = acct.t[2] - acct.t[1]
         /\ acct.stats[1].hold_started_ts = <<>>
    /\ acct.phase = 4 =>
         acct.total = (acct.t[2] - acct.t[1]) + (acct.t[4] - acct.t[3])

\* what a run persists of the rotation
Persisted == <<disk.queue, disk.index, disk.current_holders, disk.stats>>

\* C15: data.json changes once per run, at the end of the run: no step that
\* leaves a /run inside its remove + pick sequence writes queue, cursor,
\* current_holders or stats to data.json, so a process that stops in the
\* middle of a run finds the state committed before the run.
C15_NoWriteMidRunStep ==
    \A p \in Manuals : (InRotation(p) /\ InRotation(p)') => Persisted' = Persisted

C15_OneWritePerRun == [][C15_NoWriteMidRunStep]_vars

\* the steps after which the marker is to be fresh: a /run sends its result,
\* the scheduler leaves a firing that has run a rotation, the schedule is
\* switched on
ManualRunCompletes ==
    pc["m1"] = "reply" /\ pc'["m1"] = "idle" /\ out'.to = "m1"
ScheduledRunCompletes ==
    pc[Sched] = "resched" /\ pc'[Sched] = "loop" /\ schedPicks' >= 1
ScheduleSwitchedOn == ~data.enabled /\ data'.enabled
ScheduleSwitchedOff == data.enabled /\ ~data'.enabled

\* C16: after every completed run, manual or scheduled, and after every
\* schedule reconfiguration, next_run_ts is the next run computed from the
\* current schedule at that moment; after /schedule stop it is null.
C16_MarkerFreshStep ==
    /\ (ManualRunCompletes \/ ScheduledRunCompletes \/ ScheduleSwitchedOn) =>
           data'.next_run_ts = next_run_from_now(data', now')
    /\ ScheduleSwitchedOff => data'.next_run_ts = <<>>

C16_MarkerFresh == [][C16_MarkerFreshStep]_vars

\* the rotation state a run in guild g works on: get_data takes no guild,
\* there is one blob
RotationOf(g) == <<data.queue, data.index, data.current_holders, data.stats>>

\* task p takes a step of its run
RunStep(p) ==
    /\ InLocked(p)
    /\ (pc'[p] # pc[p] \/ loc'[p] # loc[p])
    /\ (InLocked(p)' \/ (pc'[p] = "idle" /\ out'.to = p))

\* C18: runs of different guilds are independent: a step of a run in one
\* guild leaves the queue, cursor, current_holders and stats of every other
\* guild unchanged, also while a run of the other guild is in progress.
C18_GuildFrameStep ==
    \A p \in Manuals : RunStep(p) =>
        \A g \in Guilds \ {gid[p]} : RotationOf(g)' = RotationOf(g)

C18_GuildsIndependent == [][C18_GuildFrameStep]_vars

\* the marker is due
Due == data.enabled /\ data.next_run_ts # <<>> /\ now >= data.next_run_ts[1]

\* the scheduler is in a firing: in its rotations, or past them (or past the
\* report of missing roles) and about to recompute the marker
Firing == InRotation(Sched) \/ pc[Sched] = "resched"

\* C17: with the schedule enabled, whenever now has reached or passed
\* next_run_ts the scheduler eventually fires (it runs the rotation, or
\* reports that a role is missing), also when it wakes after the marker, and
\* again for every later marker.
C17_DueLeadsToRun == Due ~> Firing

\* the scheduler has woken later than the marker and is in a rotation
C17_Witness ==
    /\ data.enabled /\ data.next_run_ts # <<>> /\ now > data.next_run_ts[1]
    /\ pc[Sched] = "grant"

\* the part of a task's code inside "async with lock"
InAsyncWith(p) == IF p = Sched THEN InRotation(p) /\ loc[p].rot = 1 ELSE InLocked(p)

\* C19: every run releases the run lock of its guild when it ends, by its
\* end or by an exception: the lock is held only by a task inside its
\* "async with lock" block, and a /run that waits for the lock eventually
\* gets it.
C19_LockReleased ==
    /\ [](\A g \in Guilds : \A p \in Procs :
             lock[g] = p <=> (gid[p] = g /\ InAsyncWith(p)))
    /\ (pc["m1"] = "wait_lock") ~> (lock[1] = "m1")

\* a /run has raised, has told its caller, and the lock is free again
C19_Witness ==
    /\ out = Msg("m1", "error")
    /\ pc["m1"] = "idle"
    /\ lock[1] = NoProc

C22_EveryNDaysTarget ==
    LET Target(n, h, res) ==
            LET at == [cal.now EXCEPT !.tod = h]
                Hit(k) == Timestamp(AddDays(at, k * Max(1, n))) > Timestamp(cal.now)
            IN  \E k \in 0..2 :
                  /\ Hit(k)
                  /\ \A j \in 0..(k - 1) : ~Hit(j)
                  /\ res = Returns(AddDays(at, k * Max(1, n)))
    IN  /\ (ver = "2.0" /\ cal.s.enabled /\ cal.s.type = "every_n_days") =>
              Target(cal.s.n_days, cal.s.time, cal.res)
        /\ (ver = "3.1" /\ cal.s.mode = "every_days" /\ cal.res # NotCalled) =>
              Target(cal.s.every_days, cal.s.hour, cal.res)

\* every 3 days at time of day 0, asked at time of day 1: the next run is
\* three days after today's time of day 0
C22_Witness ==
    /\ ver = "2.0" /\ cal.s.enabled /\ cal.s.type = "every_n_days"
    /\ cal.s.n_days = 3 /\ cal.s.time = 0 /\ cal.now.tod = 1
    /\ cal.res.kind = "ts"
    /\ cal.res.ts = Timestamp(cal.now) - 1 + 3 * SlotsPerDay

\* C23: when the schedule is enabled and its kind is none of the kinds the
\* calculator knows, the calculator returns no instant, the caller reports
\* a configuration error, and the scheduler does not compute the marker
\* again and again without a word.
C23_UnknownKindReported ==
    LET unknown == IF ver = "2.0"
                   THEN cal.s.enabled /\ cal.s.type \in UnknownKinds
                   ELSE cal.s.mode = "preset" /\ cal.s.preset \in UnknownKinds
    IN  (unknown /\ cal.res # NotCalled) =>
            /\ cal.res = ReturnsNone
            /\ out # NoMsg
            /\ cal.calls <= 1

\* C24: when the write of the state fails during a run, the run's changes
\* are not kept as committed: what later operations read (the blob in
\* memory) is the last state that was written, while the failure is on its
\* way to the caller.
C24_FailedWriteNotCommitted ==
    pc["m1"] = "reply_exc" => RotationOf(1) = Persisted

\* C25: a state that is saved and then loaded by a fresh process comes back
\* identical: the queue, the cursor, current_holders, and every member's
\* seconds and hold-start instant (bot2.0), the cycle pool and every member's
\* seconds and last assignment (bot3.1).
C25_RestartDurable ==
    store.phase = "loaded" => store.mem = store.orig

\* a state has come back whose queue holds both ids and in which the member
\* with the two-digit id holds the role since instant 0
C25_Witness ==
    /\ store.phase = "loaded" /\ ver = "2.0"
    /\ store.mem.queue = <<10, 2>>
    /\ store.mem.current_holders = <<10, 2>>
    /\ 10 \in DOMAIN store.mem.stats
    /\ store.mem.stats[10].hold_started_ts = <<0>>
    /\ store.mem.stats[10].seconds_total = MaxStamp

\* C26: when the schedule is changed while the scheduler waits for the
\* marker of the old schedule, the marker is computed again from the new
\* schedule: the instant the scheduler waits for, and at which the next
\* scheduled run starts, is the one the schedule in force gave when it was
\* set.
C26_WaitsForNewMarker ==
    task.at = "sleep" =>
        task.wake = compute_next_run(RunnerSchedule(task.hour),
                                     ClockAt(task.set_at)).ts

\* C30: /schedule stop during a scheduled run (its revokes done, its
\* grants or its save still to come) does not cancel the run: the run stays
\* where it is and goes on with its remaining steps.
C30_StopLetsRunFinish ==
    [][(task.at \in {"grant", "save"} /\ ~task.stopped /\ task'.stopped)
          => task'.at = task.at]_vars

\* C27: when add_roles fails for a picked member, the run does not put that
\* member into current_holders and opens no hold interval for it: every
\* member the run leaves in current_holders has role B and an open interval.
C27_FailedGrantNotHolder ==
    [][\A p \in Manuals :
         (pc[p] = "pick_end" /\ pc'[p] # "pick_end") =>
            \A m \in Range(data'.current_holders) :
               /\ m \in roleB'
               /\ m \in DOMAIN data'.stats
               /\ data'.stats[m].hold_started_ts # <<>>]_vars

\* the step of p is one iteration of the revoke loop in which remove_roles
\* failed: the holder at the head of the list is a member, had role B and
\* still has it
RevokeFailed(p) ==
    /\ pc[p] = "remove" /\ loc[p].ids # <<>>
    /\ loc'[p].ids = Tail(loc[p].ids)
    /\ loc'[p].now_ts = loc[p].now_ts
    /\ Head(loc[p].ids) \in get_member(gid[p])
    /\ Head(loc[p].ids) \in roleB /\ Head(loc[p].ids) \in roleB'

\* C28: when remove_roles fails for a holder the run is not aborted: the
\* holder's interval is closed with the elapsed time added to its total, and
\* the run goes on with the remaining holders and then with the pick.
C28_FailedRevokeGoesOn ==
    [][\A p \in Manuals :
         RevokeFailed(p) =>
            LET uid == Head(loc[p].ids)
            IN  /\ uid \in DOMAIN data'.stats
                /\ data'.stats[uid].hold_started_ts = <<>>
                /\ (uid \in DOMAIN data.stats /\ data.stats[uid].hold_started_ts # <<>>) =>
                      data'.stats[uid].seconds_total =
                          data.stats[uid].seconds_total
                          + (loc[p].now_ts - data.stats[uid].hold_started_ts[1])
                /\ pc'[p] = IF Tail(loc[p].ids) = <<>> THEN "remove_end" ELSE "remove"]_vars

\* a run has ended after a failed revoke: a member that is no longer a holder
\* still has role B, its interval closed with time on its total, and the
\* next batch has been granted
C28_Witness ==
    /\ pc["m1"] = "reply"
    /\ \E m \in roleB \ Range(data.current_holders) :
         /\ m \in DOMAIN data.stats
         /\ data.stats[m].hold_started_ts = <<>>
         /\ data.stats[m].seconds_total > 0
    /\ \E m \in Range(data.current_holders) :
         /\ m \in roleB
         /\ m \in DOMAIN data.stats
         /\ data.stats[m].hold_started_ts = <<now>>

\* C29: the scheduler leaves its loop for a run only at a check at which the
\* schedule is enabled and now >= next_run_ts; and as long as its check
\* fails (schedule disabled, or marker not reached) it grants nothing,
\* revokes nothing and changes neither queue, holders nor stats.
C29_StartsOnlyWhenDue ==
    [][/\ (pc[Sched] = "loop" /\ pc'[Sched] # "loop") =>
             (data.enabled /\ data.next_run_ts # <<>> /\ now >= data.next_run_ts[1])
       /\ (/\ pc[Sched] = "loop"
           /\ ~(data.enabled /\ data.next_run_ts # <<>> /\ now >= data.next_run_ts[1])
           /\ ~InRotation("m1")) =>
             (roleB' = roleB /\ RotationOf(1)' = RotationOf(1))]_vars

\* the scheduler has started a run at the instant of the marker, with the
\* schedule enabled
C29_Witness ==
    /\ pc[Sched] = "pick" /\ loc[Sched].rot = 1
    /\ data.enabled /\ data.next_run_ts = <<now>>
    /\ ~InRotation("m1")

\* the members of s that are in P, in the order they have in s
RECURSIVE Kept(_, _)
Kept(s, P) ==
    IF s = <<>> THEN <<>>
    ELSE IF Head(s) \in P THEN <<Head(s)>> \o Kept(Tail(s), P)
    ELSE Kept(Tail(s), P)

\* the step is the selection of pick_next_batch in the /run of m1
PickStep == pc["m1"] = "pick" /\ pc'["m1"] # "pick"

\* C32: the queue a selection works on is queue[index:] without the ids that
\* are not in the pool snapshot, in unchanged order: the batch starts with
\* it, it is what is stored when it covers the batch, and every id picked is
\* in the snapshot.
C32_WorkingQueueIsCarry ==
    [][PickStep =>
         LET carry == Kept(Drop(data.queue, data.index), poolA)
             y == Max(1, data.picks_y)
             n == Min(y, Len(carry))
         IN  /\ Range(loc'["m1"].selAll) \subseteq poolA
             /\ Take(loc'["m1"].selAll, n) = Take(carry, n)
             /\ Len(carry) >= y => (data'.queue = carry /\ data'.index = y)]_vars

\* a selection is about to start on a remainder that holds a member who has
\* left the pool next to one who is still in it
C32_Witness ==
    /\ pc["m1"] = "pick"
    /\ \E m \in Range(Drop(data.queue, data.index)) : m \notin poolA
    /\ \E m \in Range(Drop(data.queue, data.index)) : m \in poolA

\* C33: a member who joined the pool in the middle of a cycle (who is in
\* this run's snapshot but was missing from a snapshot since the last
\* permutation was drawn) is not picked by a run that draws no permutation.
C33_JoinerWaitsForPermutation ==
    [][PickStep =>
         LET carry == Kept(Drop(data.queue, data.index), poolA)
             y == Max(1, data.picks_y)
         IN  Len(carry) >= y =>
                \A m \in poolA \ hist.since : m \notin Range(loc'["m1"].selAll)]_vars

\* a batch has been selected without a permutation while a member who joined
\* in the middle of the cycle is in the pool
C33_Witness ==
    /\ pc["m1"] = "grant" /\ loc["m1"].selAll # <<>>
    /\ poolA \ hist.since # {}

\* C34: the status preview is the stored queue from the stored index on, and
\* it predicts the next run: when the pool is the one the last run saw and
\* the preview holds at least the wanted count, the run picks the first
\* wanted ids of the preview in order and the preview afterwards is the old
\* one without them.
C34_PreviewPredictsRun ==
    [][PickStep =>
         LET preview == cmd_status(data).upcoming
             want == Max(1, data.picks_y)
         IN  (poolA = hist.snap /\ Len(preview) >= want) =>
                /\ loc'["m1"].selAll = Take(preview, want)
                /\ cmd_status(data').upcoming = Drop(preview, want)]_vars

\* a run is about to select with the pool of the run before, which left a
\* preview of at least the wanted count behind a batch it had cut
C34_Witness ==
    /\ pc["m1"] = "pick" /\ poolA = hist.snap /\ data.index > 0
    /\ Len(cmd_status(data).upcoming) >= Max(1, data.picks_y)
    /\ Len(cmd_status(data).upcoming) > 0

\* C40: /picks-number set changes the pick count and nothing else (queue,
\* index, current holders, stats, schedule and marker, roles and the running
\* tasks stay as they were), and the run after it takes the new count from
\* the front of what the stored queue still holds of the pool.
C40_PicksSetOnlyCount ==
    [][/\ (out' = Msg("admin", "picks_set") /\ data'.picks_y # data.picks_y) =>
            /\ data'.picks_y >= 1
            /\ data' = [data EXCEPT !.picks_y = data'.picks_y]
            /\ UNCHANGED <<roleB, poolA, pc, loc, lock, hist>>
       /\ (PickStep /\ data.index > 0 /\ data.index # data.picks_y) =>
            LET carry == Kept(Drop(data.queue, data.index), poolA)
                y == data.picks_y
            IN  /\ Len(carry) >= y =>
                     /\ loc'["m1"].selAll = Take(carry, y)
                     /\ data'.queue = carry /\ data'.index = y
                /\ Len(carry) < y =>
                     Take(loc'["m1"].selAll, Len(carry)) = carry]_vars

\* the pick count was changed after a run had cut its batch, and a run is
\* about to take the new count from a remainder that holds it
C40_Witness ==
    /\ pc["m1"] = "pick" /\ data.index > 0 /\ data.index # data.picks_y
    /\ Len(Kept(Drop(data.queue, data.index), poolA)) >= data.picks_y
    /\ out = NoMsg

\* C31: when the schedule is configured again after /schedule stop, the
\* scheduler is running again without a restart of the process: the guild
\* has a scheduler task that will compute the new marker and run at it.
C31_ConfigureResumesScheduler ==
    [][(task.stopped /\ task'.hour # task.hour) => task'.at # "none"]_vars

\* C35: /stats changes no state (queue, holders, every seconds_total and
\* hold_started_ts stay as they were) and reports for the member
\* seconds_total plus, when an interval is open, now - hold_started_ts.
C35_StatsQueryReadOnly ==
    [][(acct.phase = 3 /\ acct'.phase = 4) =>
         LET rec == acct.stats[1]
         IN  /\ acct'.stats = acct.stats
             /\ UNCHANGED <<data, disk, roleB, st>>
             /\ acct'.total = rec.seconds_total +
                    (IF rec.hold_started_ts # <<>>
                     THEN acct.t[4] - rec.hold_started_ts[1] ELSE 0)]_vars

\* C36: whatever the runs, the restarts and the clock readings (a reading
\* earlier than a stored hold start included), no step lowers a member's
\* accumulated seconds, the accumulated seconds are never negative, and no
\* step removes a stats record.
C36_SecondsOnlyGrow ==
    [][/\ \A m \in DOMAIN data.stats :
            /\ m \in DOMAIN data'.stats
            /\ data.stats[m].seconds_total >= 0
            /\ data'.stats[m].seconds_total >= data.stats[m].seconds_total
       /\ \A m \in DOMAIN st.stats :
            /\ m \in DOMAIN st'.stats
            /\ st.stats[m].total_seconds_with_b >= 0
            /\ st'.stats[m].total_seconds_with_b >= st.stats[m].total_seconds_with_b]_vars

\* C37: once the scheduler has handled a due marker, the stored next_run_ts
\* is strictly later than the current time, whatever the schedule kind and
\* the date, so the scheduler does not run the rotation again for the same
\* marker on a following iteration.
C37_OneRotationPerMarker ==
    cal.calls > 0 =>
        /\ cal.next_run_ts # <<>>
        /\ cal.next_run_ts[1] > Timestamp(cal.now)
        /\ cal.calls <= 1

\* C39: a restart of the process with the schedule unchanged leaves
\* next_run_ts as it was: a marker that passed while the process was down is
\* still there to trigger the run, and a marker that is still ahead is not
\* moved.
C39_RestartKeepsMarker ==
    [][out' = Msg(Sched, "ready") => cal'.next_run_ts = cal.next_run_ts]_vars

\* C38: a run keeps every member that holds role B in current_holders, which
\* has at most want entries when the run completes: a previous holder whose
\* revoke failed, and who therefore still has role B when the revoke loop
\* has ended, is still in current_holders for a later run to revoke.
C38_HoldersAreTracked ==
    [][\A p \in Manuals :
         /\ (pc[p] = "remove_end" /\ pc'[p] = "pick") =>
               \A m \in Range(data.current_holders) \cap roleB' :
                  m \in Range(data'.current_holders)
         /\ (pc[p] = "pick_end" /\ pc'[p] = "reply") =>
               Len(data'.current_holders) <= Want]_vars
====
